---- MODULE Spec2Model ----
(***************************************************************************)
(* Weighted voting (pallets/vote-direct) and the dispute-resolution state  *)
(* machine built on it (pallets/court).                                    *)
(*                                                                         *)
(* Every dispatchable and trait method is one atomic action.  The pallets  *)
(* are written against decl_module! without a storage transaction layer,   *)
(* so a write made before an `ensure!` or a `?` that fails stays written:  *)
(* the actions below commit exactly the writes the code has made at the    *)
(* point where it returns.                                                 *)
(***************************************************************************)
EXTENDS Integers, Sequences, FiniteSets, TLC

\* Option::None of the numeric options (topic, justification, duration,
\* expires, threshold.against, expiry, returned id)
None == -1

(***************************************************************************)
(* Bounds of the model                                                     *)
(***************************************************************************)
\* largest vote identifier handed out while disputes are raised (Spec)
MaxVotes == 2
\* largest dispute identifier handed out
MaxDisputes == 2
\* largest vote identifier handed out to the vote registry on its own (VoteSpec)
MaxOpenings == 1
\* largest vote identifier handed out when only identifiers are allocated (AllocSpec)
MaxAllocs == 3
\* largest block height
MaxBlock == 2
\* the Signal type counts modulo this (scaled-down width of the unsigned type)
SignalModulus == 32

(***************************************************************************)
(* Program constants                                                       *)
(***************************************************************************)
\* T::MinimumDisputeAmount
MinimumDisputeAmount == 2
\* the currency's minimum-existence floor
ExistentialDeposit == 1
\* Permill::ACCURACY
PermillAccuracy == 1000000

Accounts == {"alice", "bob"}
Directions == {"NoVote", "InFavor", "Against", "Abstain"}
Topics == {1}
Justifications == {1}
Durations == {None, 0, 1}
Expiries == {None}
Amounts == {1, 2}
InitialFree == [a \in Accounts |-> IF a = "alice" THEN 4 ELSE 2]

\* SimpleShareGenesis values offered to open_vote: a declared total and the
\* Vec<(AccountId, Signal)> of account_ownership
Geneses ==
    { [total |-> 3, account_ownership |-> << <<"alice", 1>>, <<"bob", 2>> >>],
      [total |-> 3, account_ownership |-> << <<"alice", 2>> >>],
      [total |-> 3, account_ownership |-> << <<"alice", 1>>, <<"alice", 2>> >>] }

\* electorates of one member, the second with a wrong declared total
SoloGeneses ==
    { [total |-> 2, account_ownership |-> << <<"bob", 2>> >>],
      [total |-> 3, account_ownership |-> << <<"alice", 2>> >>] }

\* the electorate of scenarios A and B: three accounts of weight 10, of whom
\* carol never casts a ballot
ScenarioGenesis ==
    [total |-> 30,
     account_ownership |-> << <<"alice", 10>>, <<"bob", 10>>, <<"carol", 10>> >>]

\* Threshold<Signal> values offered to open_vote
SignalThresholds ==
    { [in_favor |-> 2, against |-> 2],
      [in_favor |-> 3, against |-> None],
      [in_favor |-> 0, against |-> None],
      [in_favor |-> 4, against |-> None] }

\* Threshold<Permill> values offered to open_percent_vote
PermillThresholds ==
    { [in_favor |-> 500000, against |-> 500001],
      [in_favor |-> 600000, against |-> None] }

\* VoteMetadata values offered to register_dispute_type; `org` stands for the
\* membership snapshot the organization supplies
ResolutionPaths ==
    { [kind |-> "Signal",
       org |-> [total |-> 2, account_ownership |-> << <<"alice", 2>> >>],
       threshold |-> [in_favor |-> 2, against |-> 2], duration |-> None],
      [kind |-> "Percentage",
       org |-> [total |-> 2, account_ownership |-> << <<"bob", 2>> >>],
       threshold |-> [in_favor |-> 600000, against |-> None], duration |-> None] }

\* further paths offered to register_dispute_type: one whose threshold exceeds
\* its electorate, so that the opening fails, and one with a duration
WiderResolutionPaths ==
    ResolutionPaths \cup
    { [kind |-> "Signal",
       org |-> [total |-> 2, account_ownership |-> << <<"alice", 2>> >>],
       threshold |-> [in_favor |-> 3, against |-> None],
       duration |-> None],
      [kind |-> "Percentage",
       org |-> [total |-> 3, account_ownership |-> << <<"alice", 1>>, <<"bob", 2>> >>],
       threshold |-> [in_favor |-> 500000, against |-> 500001],
       duration |-> 1] }

VARIABLES
    now,                \* system::Module::<T>::block_number()
    VoteIdCounter,      \* vote-direct storage
    OpenVoteCounter,
    VoteStates,         \* VoteId -> VoteState, DOMAIN = the ids with Some(_)
    VoteLogger,         \* <<VoteId, AccountId>> -> Vote, DOMAIN = the keys with Some(_)
    DisputeIdCounter,   \* court storage
    DisputeStates,      \* DisputeId -> Dispute, DOMAIN = the ids with Some(_)
    free,               \* Currency: free balance of every account
    reserved,           \* Currency: reserved balance of every account
    last,               \* the call that produced this state: operation, record id,
                        \* signer (kept for raise, "-" elsewhere) and result
    issuedVoteIds,      \* history: what generate_unique_id returned, in order (votes)
    issuedDisputeIds    \* history: what generate_unique_id returned, in order (disputes)

voteVars == <<VoteIdCounter, OpenVoteCounter, VoteStates, VoteLogger, issuedVoteIds>>
courtVars == <<DisputeIdCounter, DisputeStates, issuedDisputeIds>>
balanceVars == <<free, reserved>>
vars == <<now, VoteIdCounter, OpenVoteCounter, VoteStates,
          VoteLogger, DisputeIdCounter, DisputeStates, free, reserved, last,
          issuedVoteIds, issuedDisputeIds>>

(***************************************************************************)
(* util::vote (Vote, VoteState, Threshold, VoteOutcome)                    *)
(***************************************************************************)
\* Vote::new(magnitude, direction, justification)
NewVote(magnitude, direction, justification) ==
    [magnitude |-> magnitude, direction |-> direction, justification |-> justification]

\* VoteState::new(topic, all_possible_turnout, threshold, now, ends)
NewVoteState(topic, total, threshold, initialized, ends) ==
    [topic |-> topic, electorate_total |-> total, threshold |-> threshold,
     in_favor_tally |-> 0, against_tally |-> 0,
     opened_at |-> initialized, expires_at |-> ends]

\* VoteState::outcome
outcome(state) ==
    IF state.in_favor_tally >= state.threshold.in_favor THEN "Approved"
    ELSE IF state.threshold.against # None
            /\ state.against_tally >= state.threshold.against THEN "Rejected"
    ELSE "Pending"

\* Option<T> of a record: << >> is None, <<x>> is Some(x)
NoneRec == << >>
Some(x) == <<x>>
Unwrap(o) == o[1]

\* Vote::set_new_view: None when the direction does not change
set_new_view(old_vote, direction, justification) ==
    IF old_vote.direction = direction THEN NoneRec
    ELSE Some([old_vote EXCEPT !.direction = direction, !.justification = justification])

\* the tally bucket a direction counts in
Bucket(direction) ==
    CASE direction = "InFavor" -> "in_favor_tally"
      [] direction = "Against" -> "against_tally"
      [] OTHER -> "none"

\* the tallies before reduction to the width of Signal
RawApply(state, magnitude, old_view, new_view) ==
    LET sub == [b \in {"in_favor_tally", "against_tally"} |->
                    IF Bucket(old_view) = b THEN magnitude ELSE 0]
        add == [b \in {"in_favor_tally", "against_tally"} |->
                    IF Bucket(new_view) = b THEN magnitude ELSE 0]
    IN  [b \in {"in_favor_tally", "against_tally"} |-> <<state[b] - sub[b], state[b] - sub[b] + add[b]>>]

\* a subtraction went below zero or an addition reached the modulus
ApplyOverflows(state, magnitude, old_view, new_view) ==
    \E b \in {"in_favor_tally", "against_tally"} :
        LET r == RawApply(state, magnitude, old_view, new_view)[b]
        IN  r[1] < 0 \/ r[2] < 0 \/ r[2] >= SignalModulus

\* VoteState::apply: None for a change into NoVote
apply(state, magnitude, old_view, new_view) ==
    IF new_view = "NoVote" THEN NoneRec
    ELSE LET r == RawApply(state, magnitude, old_view, new_view)
         IN  Some([state EXCEPT !.in_favor_tally = r["in_favor_tally"][2] % SignalModulus,
                                !.against_tally = r["against_tally"][2] % SignalModulus])

\* VoteState::update_topic_and_clear_state
update_topic_and_clear_state(state, new_topic) ==
    [state EXCEPT !.topic = new_topic, !.in_favor_tally = 0, !.against_tally = 0]

\* VoteState::update_topic_without_clearing_state
update_topic_without_clearing_state(state, new_topic) ==
    [state EXCEPT !.topic = new_topic]

(***************************************************************************)
(* pallets/vote-direct                                                     *)
(***************************************************************************)
\* mutant of valid_signal_threshold: a threshold of zero in favor is refused
valid_signal_threshold_Positive(threshold, all_possible_turnout) ==
    /\ threshold.in_favor > 0
    /\ threshold.in_favor <= all_possible_turnout
    /\ IF threshold.against # None THEN threshold.against <= all_possible_turnout ELSE TRUE

valid_signal_threshold(threshold, all_possible_turnout) ==
    /\ threshold.in_favor <= all_possible_turnout
    /\ IF threshold.against # None THEN threshold.against <= all_possible_turnout ELSE TRUE

\* Permill * Signal: the product rounded to the nearest, a tie rounded down
PermillMul(part, n) ==
    LET prod == part * n
    IN  (prod \div PermillAccuracy)
          + (IF 2 * (prod % PermillAccuracy) > PermillAccuracy THEN 1 ELSE 0)

\* mutant of from_permill_to_signal: the product is truncated
from_permill_to_signal_Truncated(threshold, all_possible_turnout) ==
    [in_favor |-> (threshold.in_favor * all_possible_turnout) \div PermillAccuracy,
     against |-> IF threshold.against # None
                 THEN (threshold.against * all_possible_turnout) \div PermillAccuracy
                 ELSE None]

from_permill_to_signal(threshold, all_possible_turnout) ==
    [in_favor |-> PermillMul(threshold.in_favor, all_possible_turnout),
     against |-> IF threshold.against # None
                 THEN PermillMul(threshold.against, all_possible_turnout)
                 ELSE None]

\* the `while <Map>::get(id_counter).is_some() { id_counter += 1 }` probe
RECURSIVE Probe(_, _)
Probe(id_counter, records) ==
    IF id_counter \in DOMAIN records THEN Probe(id_counter + 1, records) ELSE id_counter

\* mutant of generate_unique_id: the probe starts at the nonce itself
generate_unique_id_NoIncrement(counter, records) == Probe(counter, records)

\* GenerateUniqueID (the same body in both pallets): the identifier returned,
\* which is also the nonce stored
generate_unique_id(counter, records) == Probe(counter + 1, records)

\* the for_each of open_vote: one NoVote ballot per (who, vote_power) pair
RECURSIVE MintSignal(_, _, _)
MintSignal(logger, vote_id, ownership) ==
    IF ownership = << >> THEN logger
    ELSE LET who == Head(ownership)[1]
             vote_power == Head(ownership)[2]
             key == <<vote_id, who>>
             new_vote == NewVote(vote_power, "NoVote", None)
         IN  MintSignal([k \in DOMAIN logger \cup {key} |->
                            IF k = key THEN new_vote ELSE logger[k]],
                        vote_id, Tail(ownership))

\* expected_total accumulated by the same for_each
RECURSIVE ExpectedTotal(_)
ExpectedTotal(ownership) ==
    IF ownership = << >> THEN 0
    ELSE Head(ownership)[2] + ExpectedTotal(Tail(ownership))

\* mutant of check_vote_expired: the block of expiry itself counts as expired
check_vote_expired_Inclusive(state, current) ==
    IF state.expires_at # None THEN state.expires_at <= current ELSE FALSE

\* check_vote_expired
check_vote_expired(state, current) ==
    IF state.expires_at # None THEN state.expires_at < current ELSE FALSE

\* the body shared by open_vote and open_percent_vote from generate_unique_id
\* on: the storage it leaves behind and what it returns
OpenWith(topic, src, threshold, duration) ==
    LET vote_id == generate_unique_id(VoteIdCounter, VoteStates)
        logger == MintSignal(VoteLogger, vote_id, src.account_ownership)
        expected_total == ExpectedTotal(src.account_ownership)
        ends == IF duration # None THEN now + duration ELSE None
        failed(e) == [err |-> e, id |-> None, allocated |-> vote_id,
                      counter |-> vote_id, logger |-> logger,
                      states |-> VoteStates, open |-> OpenVoteCounter]
    IN  IF expected_total # src.total THEN failed("InvalidVoteGenesisInput")
        ELSE IF ~valid_signal_threshold(threshold, expected_total)
        THEN failed("InputThresholdExceedsBounds")
        ELSE [err |-> "Ok", id |-> vote_id, allocated |-> vote_id,
              counter |-> vote_id, logger |-> logger,
              states |-> [i \in DOMAIN VoteStates \cup {vote_id} |->
                             IF i = vote_id
                             THEN NewVoteState(topic, src.total, threshold, now, ends)
                             ELSE VoteStates[i]],
              open |-> OpenVoteCounter + 1]

open_vote(topic, src, threshold, duration) ==
    OpenWith(topic, src, threshold, duration)

open_percent_vote(topic, src, threshold, duration) ==
    OpenWith(topic, src, from_permill_to_signal(threshold, src.total), duration)

\* commit the storage an opening leaves behind
CommitOpen(r) ==
    /\ VoteIdCounter' = r.counter
    /\ VoteLogger' = r.logger
    /\ VoteStates' = r.states
    /\ OpenVoteCounter' = r.open
    /\ issuedVoteIds' = Append(issuedVoteIds, r.allocated)

create_signal_vote(topic, src, threshold, duration) ==
    /\ LET r == open_vote(topic, src, threshold, duration)
       IN  /\ CommitOpen(r)
           /\ last' = [op |-> "open_vote", arg |-> r.counter, who |-> "-", err |-> r.err]
    /\ UNCHANGED <<now, courtVars, balanceVars>>

create_percent_vote(topic, src, threshold, duration) ==
    /\ LET r == open_percent_vote(topic, src, threshold, duration)
       IN  /\ CommitOpen(r)
           /\ last' = [op |-> "open_percent_vote", arg |-> r.counter, who |-> "-", err |-> r.err]
    /\ UNCHANGED <<now, courtVars, balanceVars>>

\* mutant of get_vote_outcome: an undecided vote is reported as Rejected
get_vote_outcome_NeverPending(vote_id) ==
    IF vote_id \notin DOMAIN VoteStates THEN "NoVoteStateForOutcomeQuery"
    ELSE IF outcome(VoteStates[vote_id]) = "Pending" THEN "Rejected"
    ELSE outcome(VoteStates[vote_id])

\* mutant of get_vote_outcome: the outcome as it was when the vote was opened
get_vote_outcome_AtOpening(vote_id) ==
    IF vote_id \notin DOMAIN VoteStates THEN "NoVoteStateForOutcomeQuery"
    ELSE outcome([VoteStates[vote_id] EXCEPT !.in_favor_tally = 0, !.against_tally = 0])

\* get_vote_outcome
get_vote_outcome(vote_id) ==
    IF vote_id \notin DOMAIN VoteStates THEN "NoVoteStateForOutcomeQuery"
    ELSE outcome(VoteStates[vote_id])

\* mutant of VoteResults: a voter without a Ballot is given an empty one
VoteResults_BallotDefaulted(vote_id, voter, direction, justification) ==
    LET fail(e) == {[err |-> e, logger |-> VoteLogger, states |-> VoteStates]}
    IN  IF vote_id \notin DOMAIN VoteStates THEN fail("NoVoteStateForVoteRequest")
        ELSE LET vote_state == VoteStates[vote_id] IN
        IF check_vote_expired(vote_state, now)
        THEN fail("VotePastExpirationTimeSoVotesNotAccepted")
        ELSE LET old_vote == IF <<vote_id, voter>> \in DOMAIN VoteLogger
                             THEN VoteLogger[<<vote_id, voter>>]
                             ELSE NewVote(0, "NoVote", None)
                 new_vote == set_new_view(old_vote, direction, justification) IN
        IF new_vote = NoneRec
        THEN fail("OldVoteDirectionEqualsNewVoteDirectionSoNoChange")
        ELSE LET new_state == apply(vote_state, old_vote.magnitude,
                                    old_vote.direction, direction) IN
        IF new_state = NoneRec THEN fail("VoteChangeNotSupported")
        ELSE {[err |-> "Ok",
               logger |-> [k \in DOMAIN VoteLogger \cup {<<vote_id, voter>>} |->
                             IF k = <<vote_id, voter>> THEN Unwrap(new_vote)
                             ELSE VoteLogger[k]],
               states |-> [VoteStates EXCEPT ![vote_id] = Unwrap(new_state)]]}
             \cup (IF ApplyOverflows(vote_state, old_vote.magnitude,
                                     old_vote.direction, direction)
                   THEN fail("Panic") ELSE {})

\* mutant of VoteResults: a Ballot is rewritten even when its direction does not change
VoteResults_SameDirectionAccepted(vote_id, voter, direction, justification) ==
    LET fail(e) == {[err |-> e, logger |-> VoteLogger, states |-> VoteStates]}
    IN  IF vote_id \notin DOMAIN VoteStates THEN fail("NoVoteStateForVoteRequest")
        ELSE LET vote_state == VoteStates[vote_id] IN
        IF check_vote_expired(vote_state, now)
        THEN fail("VotePastExpirationTimeSoVotesNotAccepted")
        ELSE IF <<vote_id, voter>> \notin DOMAIN VoteLogger
        THEN fail("SignalNotMintedForVoter")
        ELSE LET old_vote == VoteLogger[<<vote_id, voter>>]
                 new_vote == Some([old_vote EXCEPT !.direction = direction,
                                                    !.justification = justification]) IN
        IF new_vote = NoneRec
        THEN fail("OldVoteDirectionEqualsNewVoteDirectionSoNoChange")
        ELSE LET new_state == apply(vote_state, old_vote.magnitude,
                                    old_vote.direction, direction) IN
        IF new_state = NoneRec THEN fail("VoteChangeNotSupported")
        ELSE {[err |-> "Ok",
               logger |-> [VoteLogger EXCEPT ![<<vote_id, voter>>] = Unwrap(new_vote)],
               states |-> [VoteStates EXCEPT ![vote_id] = Unwrap(new_state)]]}
             \cup (IF ApplyOverflows(vote_state, old_vote.magnitude,
                                     old_vote.direction, direction)
                   THEN fail("Panic") ELSE {})

\* mutant of VoteResults: the voter's old Ballot is written back after the tallies moved
VoteResults_BallotNotStored(vote_id, voter, direction, justification) ==
    LET fail(e) == {[err |-> e, logger |-> VoteLogger, states |-> VoteStates]}
    IN  IF vote_id \notin DOMAIN VoteStates THEN fail("NoVoteStateForVoteRequest")
        ELSE LET vote_state == VoteStates[vote_id] IN
        IF check_vote_expired(vote_state, now)
        THEN fail("VotePastExpirationTimeSoVotesNotAccepted")
        ELSE IF <<vote_id, voter>> \notin DOMAIN VoteLogger
        THEN fail("SignalNotMintedForVoter")
        ELSE LET old_vote == VoteLogger[<<vote_id, voter>>]
                 new_vote == set_new_view(old_vote, direction, justification) IN
        IF new_vote = NoneRec
        THEN fail("OldVoteDirectionEqualsNewVoteDirectionSoNoChange")
        ELSE LET new_state == apply(vote_state, old_vote.magnitude,
                                    old_vote.direction, direction) IN
        IF new_state = NoneRec THEN fail("VoteChangeNotSupported")
        ELSE {[err |-> "Ok",
               logger |-> [VoteLogger EXCEPT ![<<vote_id, voter>>] = old_vote],
               states |-> [VoteStates EXCEPT ![vote_id] = Unwrap(new_state)]]}
             \cup (IF ApplyOverflows(vote_state, old_vote.magnitude,
                                     old_vote.direction, direction)
                   THEN fail("Panic") ELSE {})

\* the results vote_on_proposal can have and the records each leaves written.
\* The tallies are unsigned: when a subtraction goes below zero or an addition
\* leaves the type, a build with overflow checks panics (the call is aborted and
\* nothing is written) and a build without them wraps; a call that overflows
\* has both results here.
VoteResults(vote_id, voter, direction, justification) ==
    LET fail(e) == {[err |-> e, logger |-> VoteLogger, states |-> VoteStates]}
    IN  IF vote_id \notin DOMAIN VoteStates THEN fail("NoVoteStateForVoteRequest")
        ELSE LET vote_state == VoteStates[vote_id] IN
        IF check_vote_expired(vote_state, now)
        THEN fail("VotePastExpirationTimeSoVotesNotAccepted")
        ELSE IF <<vote_id, voter>> \notin DOMAIN VoteLogger
        THEN fail("SignalNotMintedForVoter")
        ELSE LET old_vote == VoteLogger[<<vote_id, voter>>]
                 new_vote == set_new_view(old_vote, direction, justification) IN
        IF new_vote = NoneRec
        THEN fail("OldVoteDirectionEqualsNewVoteDirectionSoNoChange")
        ELSE LET new_state == apply(vote_state, old_vote.magnitude,
                                    old_vote.direction, direction) IN
        IF new_state = NoneRec THEN fail("VoteChangeNotSupported")
        ELSE {[err |-> "Ok",
               logger |-> [VoteLogger EXCEPT ![<<vote_id, voter>>] = Unwrap(new_vote)],
               states |-> [VoteStates EXCEPT ![vote_id] = Unwrap(new_state)]]}
             \cup (IF ApplyOverflows(vote_state, old_vote.magnitude,
                                     old_vote.direction, direction)
                   THEN fail("Panic") ELSE {})

\* mutant of vote_on_proposal: a counted ballot settles the dispute that
\* dispatched the vote
vote_on_proposal_DisputeSettled(vote_id, voter, direction, justification) ==
    \E r \in VoteResults(vote_id, voter, direction, justification) :
        /\ VoteLogger' = r.logger
        /\ VoteStates' = r.states
        /\ last' = [op |-> "cast_ballot", arg |-> vote_id, who |-> "-", err |-> r.err]
        /\ DisputeStates' =
               [d \in DOMAIN DisputeStates |->
                   IF /\ r.err = "Ok"
                      /\ DisputeStates[d].state =
                             [tag |-> "DisputeRaisedAndVoteDispatched", vote |-> vote_id]
                   THEN [DisputeStates[d] EXCEPT
                            !.state = [tag |-> "DisputeRaisedAndAccepted", vote |-> vote_id]]
                   ELSE DisputeStates[d]]
        /\ UNCHANGED <<now, VoteIdCounter, OpenVoteCounter, issuedVoteIds,
                       DisputeIdCounter, issuedDisputeIds, balanceVars>>

vote_on_proposal(vote_id, voter, direction, justification) ==
    \E r \in VoteResults(vote_id, voter, direction, justification) :
        /\ VoteLogger' = r.logger
        /\ VoteStates' = r.states
        /\ last' = [op |-> "cast_ballot", arg |-> vote_id, who |-> "-", err |-> r.err]
        /\ UNCHANGED <<now, VoteIdCounter, OpenVoteCounter,
                       issuedVoteIds, courtVars, balanceVars>>

\* mutant of update_vote_topic: the test of clear_previous_vote_state is inverted
update_vote_topic_Inverted(vote_id, new_topic, clear_previous_vote_state) ==
    /\ IF vote_id \notin DOMAIN VoteStates
       THEN /\ UNCHANGED VoteStates
            /\ last' = [op |-> "update_topic", arg |-> vote_id, who |-> "-",
                        err |-> "CannotUpdateVoteTopicIfVoteStateDNE"]
       ELSE LET old_vote_state == VoteStates[vote_id]
                new_vote_state ==
                    IF ~clear_previous_vote_state
                    THEN update_topic_and_clear_state(old_vote_state, new_topic)
                    ELSE update_topic_without_clearing_state(old_vote_state, new_topic)
            IN  /\ VoteStates' = [VoteStates EXCEPT ![vote_id] = new_vote_state]
                /\ last' = [op |-> IF clear_previous_vote_state
                                   THEN "update_topic_clear" ELSE "update_topic",
                            arg |-> vote_id, who |-> "-", err |-> "Ok"]
    /\ UNCHANGED <<now, VoteIdCounter, OpenVoteCounter, VoteLogger,
                   issuedVoteIds, courtVars, balanceVars>>

\* mutant of update_vote_topic: the state is cleared whatever the flag says
update_vote_topic_AlwaysCleared(vote_id, new_topic, clear_previous_vote_state) ==
    /\ IF vote_id \notin DOMAIN VoteStates
       THEN /\ UNCHANGED VoteStates
            /\ last' = [op |-> "update_topic", arg |-> vote_id, who |-> "-",
                        err |-> "CannotUpdateVoteTopicIfVoteStateDNE"]
       ELSE LET old_vote_state == VoteStates[vote_id]
                new_vote_state ==
                    update_topic_and_clear_state(old_vote_state, new_topic)
            IN  /\ VoteStates' = [VoteStates EXCEPT ![vote_id] = new_vote_state]
                /\ last' = [op |-> IF clear_previous_vote_state
                                   THEN "update_topic_clear" ELSE "update_topic",
                            arg |-> vote_id, who |-> "-", err |-> "Ok"]
    /\ UNCHANGED <<now, VoteIdCounter, OpenVoteCounter, VoteLogger,
                   issuedVoteIds, courtVars, balanceVars>>

\* mutant of update_vote_topic: clearing opens the vote afresh, without expiry
update_vote_topic_Reopened(vote_id, new_topic, clear_previous_vote_state) ==
    /\ IF vote_id \notin DOMAIN VoteStates
       THEN /\ UNCHANGED VoteStates
            /\ last' = [op |-> "update_topic", arg |-> vote_id, who |-> "-",
                        err |-> "CannotUpdateVoteTopicIfVoteStateDNE"]
       ELSE LET old_vote_state == VoteStates[vote_id]
                new_vote_state ==
                    IF clear_previous_vote_state
                    THEN NewVoteState(new_topic, old_vote_state.electorate_total,
                                      old_vote_state.threshold, now, None)
                    ELSE update_topic_without_clearing_state(old_vote_state, new_topic)
            IN  /\ VoteStates' = [VoteStates EXCEPT ![vote_id] = new_vote_state]
                /\ last' = [op |-> IF clear_previous_vote_state
                                   THEN "update_topic_clear" ELSE "update_topic",
                            arg |-> vote_id, who |-> "-", err |-> "Ok"]
    /\ UNCHANGED <<now, VoteIdCounter, OpenVoteCounter, VoteLogger,
                   issuedVoteIds, courtVars, balanceVars>>

update_vote_topic(vote_id, new_topic, clear_previous_vote_state) ==
    /\ IF vote_id \notin DOMAIN VoteStates
       THEN /\ UNCHANGED VoteStates
            /\ last' = [op |-> "update_topic", arg |-> vote_id, who |-> "-",
                        err |-> "CannotUpdateVoteTopicIfVoteStateDNE"]
       ELSE LET old_vote_state == VoteStates[vote_id]
                new_vote_state ==
                    IF clear_previous_vote_state
                    THEN update_topic_and_clear_state(old_vote_state, new_topic)
                    ELSE update_topic_without_clearing_state(old_vote_state, new_topic)
            IN  /\ VoteStates' = [VoteStates EXCEPT ![vote_id] = new_vote_state]
                /\ last' = [op |-> IF clear_previous_vote_state
                                   THEN "update_topic_clear" ELSE "update_topic",
                            arg |-> vote_id, who |-> "-", err |-> "Ok"]
    /\ UNCHANGED <<now, VoteIdCounter, OpenVoteCounter, VoteLogger,
                   issuedVoteIds, courtVars, balanceVars>>

(***************************************************************************)
(* Currency and ReservableCurrency                                         *)
(***************************************************************************)
Min(a, b) == IF a < b THEN a ELSE b

\* ReservableCurrency::reserve: fails when the free balance is short
reserve(bal, who, value) ==
    IF bal.free[who] < value
    THEN [err |-> "InsufficientBalance", free |-> bal.free, reserved |-> bal.reserved]
    ELSE [err |-> "Ok",
          free |-> [bal.free EXCEPT ![who] = @ - value],
          reserved |-> [bal.reserved EXCEPT ![who] = @ + value]]

\* ReservableCurrency::unreserve: releases what is reserved, up to value;
\* its return value (the shortfall) is dropped by the callers
unreserve(bal, who, value) ==
    LET actual == Min(bal.reserved[who], value)
    IN  [err |-> "Ok",
         free |-> [bal.free EXCEPT ![who] = @ + actual],
         reserved |-> [bal.reserved EXCEPT ![who] = @ - actual]]

\* Currency::transfer with ExistenceRequirement::KeepAlive
transfer(bal, source, dest, value) ==
    IF source = dest
    THEN [err |-> "Ok", free |-> bal.free, reserved |-> bal.reserved]
    ELSE IF bal.free[source] < value
    THEN [err |-> "InsufficientBalance", free |-> bal.free, reserved |-> bal.reserved]
    ELSE IF bal.free[source] - value < ExistentialDeposit
    THEN [err |-> "KeepAlive", free |-> bal.free, reserved |-> bal.reserved]
    ELSE [err |-> "Ok",
          free |-> [bal.free EXCEPT ![source] = @ - value, ![dest] = @ + value],
          reserved |-> bal.reserved]

(***************************************************************************)
(* util::court (Dispute, DisputeState)                                     *)
(***************************************************************************)
DisputeNotRaised == [tag |-> "DisputeNotRaised", vote |-> None]
DisputeRaisedAndVoteDispatched(v) == [tag |-> "DisputeRaisedAndVoteDispatched", vote |-> v]
DisputeRaisedAndAccepted(v) == [tag |-> "DisputeRaisedAndAccepted", vote |-> v]
DisputeRaisedAndRejected(v) == [tag |-> "DisputeRaisedAndRejected", vote |-> v]

\* Dispute::new
NewDispute(locker, locked_funds, dispute_raiser, resolution_metadata, state, expiry) ==
    [locker |-> locker, locked_funds |-> locked_funds, dispute_raiser |-> dispute_raiser,
     resolution_metadata |-> resolution_metadata, state |-> state, expiry |-> expiry]

\* Dispute::can_raise_dispute
can_raise_dispute(dispute, who) == dispute.dispute_raiser = who

\* Dispute::set_state
set_state(dispute, state) == [dispute EXCEPT !.state = state]

(***************************************************************************)
(* pallets/court                                                           *)
(***************************************************************************)
\* mutant of MeetsMinimum: the amount must exceed the minimum
MeetsMinimum_Strictly(amount_to_lock) == amount_to_lock > MinimumDisputeAmount

\* the `amount_to_lock >= T::MinimumDisputeAmount::get()` check
MeetsMinimum(amount_to_lock) == amount_to_lock >= MinimumDisputeAmount

\* mutant of LockFunds: the result of the reserve is dropped
LockFunds_ReserveUnchecked(locker, amount_to_lock) ==
    IF ~MeetsMinimum(amount_to_lock)
    THEN [err |-> "DisputeMustExceedModuleMinimum", free |-> free, reserved |-> reserved]
    ELSE [reserve([free |-> free, reserved |-> reserved], locker, amount_to_lock)
             EXCEPT !.err = "Ok"]

\* the two steps of register_dispute_type that can fail, and the balances each
\* leaves: the check of the minimum, then the reserve on the locker
LockFunds(locker, amount_to_lock) ==
    IF ~MeetsMinimum(amount_to_lock)
    THEN [err |-> "DisputeMustExceedModuleMinimum", free |-> free, reserved |-> reserved]
    ELSE reserve([free |-> free, reserved |-> reserved], locker, amount_to_lock)

register_dispute_type(locker, amount_to_lock, dispute_raiser, resolution_path, expiry) ==
    /\ DisputeIdCounter < MaxDisputes
    /\ LET r == LockFunds(locker, amount_to_lock)
       IN       IF r.err # "Ok"
                THEN /\ UNCHANGED <<courtVars, balanceVars>>
                     /\ last' = [op |-> "register", arg |-> None, who |-> "-", err |-> r.err]
                ELSE LET new_dispute_state ==
                             NewDispute(locker, amount_to_lock, dispute_raiser,
                                        resolution_path, DisputeNotRaised, expiry)
                         new_dispute_id ==
                             generate_unique_id(DisputeIdCounter, DisputeStates)
                     IN  /\ free' = r.free
                         /\ reserved' = r.reserved
                         /\ DisputeIdCounter' = new_dispute_id
                         /\ issuedDisputeIds' = Append(issuedDisputeIds, new_dispute_id)
                         /\ DisputeStates' =
                                [i \in DOMAIN DisputeStates \cup {new_dispute_id} |->
                                    IF i = new_dispute_id THEN new_dispute_state
                                    ELSE DisputeStates[i]]
                         /\ last' = [op |-> "register", arg |-> new_dispute_id, who |-> "-", err |-> "Ok"]
    /\ UNCHANGED <<now, voteVars>>

\* mutant of CanRaiseFrom: a dispute the vote rejected can be raised again
CanRaiseFrom_RejectedToo(state) ==
    state.tag \in {"DisputeNotRaised", "DisputeRaisedAndRejected"}

\* mutant of CanRaiseFrom: the match arm accepts every state
CanRaiseFrom_AnyState(state) == state.tag \in {"DisputeNotRaised", "DisputeRaisedAndVoteDispatched",
                                               "DisputeRaisedAndAccepted", "DisputeRaisedAndRejected"}

\* the match on dispute.state() of raise_dispute_to_trigger_vote
CanRaiseFrom(state) == state.tag = "DisputeNotRaised"

\* mutant of DispatchVote: the vote is opened without the path's duration
DispatchVote_DurationDropped(metadata) ==
    IF metadata.kind = "Signal"
    THEN open_vote(None, metadata.org, metadata.threshold, None)
    ELSE open_percent_vote(None, metadata.org, metadata.threshold, None)

\* the match on dispute.resolution_metadata(): which opening is dispatched
DispatchVote(metadata) ==
    IF metadata.kind = "Signal"
    THEN open_vote(None, metadata.org, metadata.threshold, metadata.duration)
    ELSE open_percent_vote(None, metadata.org, metadata.threshold, metadata.duration)

\* mutant of raise_dispute_to_trigger_vote: the state is matched before the signer is checked
raise_dispute_to_trigger_vote_StateFirst(trigger, dispute_id) ==
    /\ IF dispute_id \notin DOMAIN DisputeStates
       THEN /\ UNCHANGED <<voteVars, DisputeStates>>
            /\ last' = [op |-> "raise", arg |-> dispute_id, who |-> trigger,
                        err |-> "CannotRaiseDisputeIfDisputeStateDNE"]
       ELSE LET dispute == DisputeStates[dispute_id] IN
            IF ~CanRaiseFrom(dispute.state)
            THEN /\ UNCHANGED <<voteVars, DisputeStates>>
                 /\ last' = [op |-> "raise", arg |-> dispute_id, who |-> trigger,
                             err |-> "ActiveDisputeCannotBeRaisedFromCurrentState"]
            ELSE IF ~can_raise_dispute(dispute, trigger)
            THEN /\ UNCHANGED <<voteVars, DisputeStates>>
                 /\ last' = [op |-> "raise", arg |-> dispute_id, who |-> trigger,
                             err |-> "SignerNotAuthorizedToRaiseThisDispute"]
            ELSE /\ VoteIdCounter < MaxVotes
                 /\ LET r == DispatchVote(dispute.resolution_metadata)
                    IN  /\ CommitOpen(r)
                        /\ IF r.err # "Ok"
                           THEN UNCHANGED DisputeStates
                           ELSE DisputeStates' =
                                    [DisputeStates EXCEPT ![dispute_id] =
                                        set_state(dispute, DisputeRaisedAndVoteDispatched(r.id))]
                        /\ last' = [op |-> "raise", arg |-> dispute_id, who |-> trigger, err |-> r.err]
    /\ UNCHANGED <<now, DisputeIdCounter, issuedDisputeIds, balanceVars>>

\* mutant of raise_dispute_to_trigger_vote: the dispute is raised whether or not the vote opened
raise_dispute_to_trigger_vote_FailureIgnored(trigger, dispute_id) ==
    /\ IF dispute_id \notin DOMAIN DisputeStates
       THEN /\ UNCHANGED <<voteVars, DisputeStates>>
            /\ last' = [op |-> "raise", arg |-> dispute_id, who |-> trigger,
                        err |-> "CannotRaiseDisputeIfDisputeStateDNE"]
       ELSE LET dispute == DisputeStates[dispute_id] IN
            IF ~can_raise_dispute(dispute, trigger)
            THEN /\ UNCHANGED <<voteVars, DisputeStates>>
                 /\ last' = [op |-> "raise", arg |-> dispute_id, who |-> trigger,
                             err |-> "SignerNotAuthorizedToRaiseThisDispute"]
            ELSE IF ~CanRaiseFrom(dispute.state)
            THEN /\ UNCHANGED <<voteVars, DisputeStates>>
                 /\ last' = [op |-> "raise", arg |-> dispute_id, who |-> trigger,
                             err |-> "ActiveDisputeCannotBeRaisedFromCurrentState"]
            ELSE /\ VoteIdCounter < MaxVotes
                 /\ LET r == DispatchVote(dispute.resolution_metadata)
                    IN  /\ CommitOpen(r)
                        /\ DisputeStates' =
                               [DisputeStates EXCEPT ![dispute_id] =
                                   set_state(dispute, DisputeRaisedAndVoteDispatched(r.id))]
                        /\ last' = [op |-> "raise", arg |-> dispute_id, who |-> trigger, err |-> r.err]
    /\ UNCHANGED <<now, DisputeIdCounter, issuedDisputeIds, balanceVars>>

raise_dispute_to_trigger_vote(trigger, dispute_id) ==
    /\ IF dispute_id \notin DOMAIN DisputeStates
       THEN /\ UNCHANGED <<voteVars, DisputeStates>>
            /\ last' = [op |-> "raise", arg |-> dispute_id, who |-> trigger,
                        err |-> "CannotRaiseDisputeIfDisputeStateDNE"]
       ELSE LET dispute == DisputeStates[dispute_id] IN
            IF ~can_raise_dispute(dispute, trigger)
            THEN /\ UNCHANGED <<voteVars, DisputeStates>>
                 /\ last' = [op |-> "raise", arg |-> dispute_id, who |-> trigger,
                             err |-> "SignerNotAuthorizedToRaiseThisDispute"]
            ELSE IF ~CanRaiseFrom(dispute.state)
            THEN /\ UNCHANGED <<voteVars, DisputeStates>>
                 /\ last' = [op |-> "raise", arg |-> dispute_id, who |-> trigger,
                             err |-> "ActiveDisputeCannotBeRaisedFromCurrentState"]
            ELSE /\ VoteIdCounter < MaxVotes
                 /\ LET r == DispatchVote(dispute.resolution_metadata)
                    IN  /\ CommitOpen(r)
                        /\ IF r.err # "Ok"
                           THEN UNCHANGED DisputeStates
                           ELSE DisputeStates' =
                                    [DisputeStates EXCEPT ![dispute_id] =
                                        set_state(dispute, DisputeRaisedAndVoteDispatched(r.id))]
                        /\ last' = [op |-> "raise", arg |-> dispute_id, who |-> trigger, err |-> r.err]
    /\ UNCHANGED <<now, DisputeIdCounter, issuedDisputeIds, balanceVars>>

\* mutant of CanPollFrom: an Accepted dispute is polled like a Raised one
CanPollFrom_AcceptedToo(state) ==
    state.tag \in {"DisputeRaisedAndVoteDispatched", "DisputeRaisedAndAccepted"}

\* mutant of CanPollFrom: a dispute is polled only while its vote has not expired
CanPollFrom_UntilVoteExpires(state) ==
    /\ state.tag = "DisputeRaisedAndVoteDispatched"
    /\ ~check_vote_expired(VoteStates[state.vote], now)

\* the match on dispute.state() of poll_dispute_to_execute_outcome
CanPollFrom(state) == state.tag = "DisputeRaisedAndVoteDispatched"

\* mutant of ApprovedArm: the funds are transferred while still reserved
ApprovedArm_StillReserved(bal, dispute) ==
    transfer(bal, dispute.locker, dispute.dispute_raiser, dispute.locked_funds)

\* the VoteOutcome::Approved arm: what the custodian holds when the arm ends
ApprovedArm(bal, dispute) ==
    LET u == unreserve(bal, dispute.locker, dispute.locked_funds)
    IN  transfer(u, dispute.locker, dispute.dispute_raiser, dispute.locked_funds)

\* the VoteOutcome::Rejected arm
RejectedArm(bal, dispute) ==
    unreserve(bal, dispute.locker, dispute.locked_funds)

poll_dispute_to_execute_outcome(caller, dispute_id) ==
    /\ IF dispute_id \notin DOMAIN DisputeStates
       THEN /\ UNCHANGED <<DisputeStates, balanceVars>>
            /\ last' = [op |-> "poll", arg |-> dispute_id, who |-> "-",
                        err |-> "CannotPollDisputeIfDisputeStateDNE"]
       ELSE LET dispute == DisputeStates[dispute_id] IN
            IF ~CanPollFrom(dispute.state)
            THEN /\ UNCHANGED <<DisputeStates, balanceVars>>
                 /\ last' = [op |-> "poll", arg |-> dispute_id, who |-> "-",
                             err |-> "ActiveDisputeCannotBePolledFromCurrentState"]
            ELSE LET live_vote_id == dispute.state.vote
                     vote_outcome == get_vote_outcome(live_vote_id)
                     bal == [free |-> free, reserved |-> reserved]
                 IN  CASE vote_outcome = "NoVoteStateForOutcomeQuery" ->
                            /\ UNCHANGED <<DisputeStates, balanceVars>>
                            /\ last' = [op |-> "poll", arg |-> dispute_id, who |-> "-", err |-> vote_outcome]
                       [] vote_outcome = "Approved" ->
                            LET r == ApprovedArm(bal, dispute)
                            IN  /\ free' = r.free
                                /\ reserved' = r.reserved
                                /\ IF r.err # "Ok"
                                   THEN UNCHANGED DisputeStates
                                   ELSE DisputeStates' =
                                            [DisputeStates EXCEPT ![dispute_id] =
                                                set_state(dispute,
                                                    DisputeRaisedAndAccepted(live_vote_id))]
                                /\ last' = [op |-> "poll", arg |-> dispute_id, who |-> "-", err |-> r.err]
                       [] vote_outcome = "Rejected" ->
                            LET r == RejectedArm(bal, dispute)
                            IN  /\ free' = r.free
                                /\ reserved' = r.reserved
                                /\ DisputeStates' =
                                       [DisputeStates EXCEPT ![dispute_id] =
                                           set_state(dispute,
                                               DisputeRaisedAndRejected(live_vote_id))]
                                /\ last' = [op |-> "poll", arg |-> dispute_id, who |-> "-", err |-> "Ok"]
                       [] OTHER ->
                            /\ UNCHANGED <<DisputeStates, balanceVars>>
                            /\ last' = [op |-> "poll", arg |-> dispute_id, who |-> "-",
                                        err |-> "VoteOutcomeInconclusiveSoPollCannotExecuteOutcome"]
    /\ UNCHANGED <<now, voteVars, DisputeIdCounter, issuedDisputeIds>>

\* the host produces the next block
Tick ==
    /\ now < MaxBlock
    /\ now' = now + 1
    /\ last' = [op |-> "tick", arg |-> None, who |-> "-", err |-> "Ok"]
    /\ UNCHANGED <<voteVars, courtVars, balanceVars>>

(***************************************************************************)
(* The state machine                                                       *)
(***************************************************************************)
Init ==
    /\ now = 0
    /\ VoteIdCounter = 0
    /\ OpenVoteCounter = 0
    /\ VoteStates = << >>
    /\ VoteLogger = << >>
    /\ DisputeIdCounter = 0
    /\ DisputeStates = << >>
    /\ free = InitialFree
    /\ reserved = [a \in Accounts |-> 0]
    /\ last = [op |-> "init", arg |-> None, who |-> "-", err |-> "Ok"]
    /\ issuedVoteIds = << >>
    /\ issuedDisputeIds = << >>

VoteIds == 1..MaxVotes
DisputeIds == 1..MaxDisputes

CreateSignalVote(cap, sources, thresholds, durations) ==
    /\ VoteIdCounter < cap
    /\ \E src \in sources, threshold \in thresholds, duration \in durations :
           create_signal_vote(None, src, threshold, duration)

CreatePercentVote(cap, sources, thresholds, durations) ==
    /\ VoteIdCounter < cap
    /\ \E src \in sources, threshold \in thresholds, duration \in durations :
           create_percent_vote(None, src, threshold, duration)

SubmitVote ==
    \E vote_id \in VoteIds, voter \in Accounts, direction \in Directions,
       justification \in Justifications :
        vote_on_proposal(vote_id, voter, direction, justification)

UpdateVoteTopic ==
    \E vote_id \in VoteIds, new_topic \in Topics, clear \in BOOLEAN :
        update_vote_topic(vote_id, new_topic, clear)

RegisterDispute(raisers, paths) ==
    \E locker \in Accounts, amount \in Amounts, dispute_raiser \in raisers,
       path \in paths, expiry \in Expiries :
        register_dispute_type(locker, amount, dispute_raiser, path, expiry)

RegisterDisputeBy(cap, paths, expiries) ==
    /\ DisputeIdCounter < cap
    /\ \E locker \in Accounts, amount \in Amounts, path \in paths, expiry \in expiries :
           register_dispute_type(locker, amount, "bob", path, expiry)

RaiseDispute ==
    \E trigger \in Accounts, dispute_id \in DisputeIds :
        raise_dispute_to_trigger_vote(trigger, dispute_id)

PollDispute ==
    \E caller \in Accounts, dispute_id \in DisputeIds :
        poll_dispute_to_execute_outcome(caller, dispute_id)

\* the court over the votes it dispatches
Next ==
    \/ RegisterDispute(Accounts, ResolutionPaths)
    \/ RaiseDispute
    \/ PollDispute
    \/ SubmitVote

Spec == Init /\ [][Next]_vars

\* the vote registry on its own
VoteNext ==
    \/ CreateSignalVote(MaxOpenings, Geneses, SignalThresholds, {None, 0})
    \/ CreatePercentVote(MaxOpenings, Geneses, PermillThresholds, {None, 0})
    \/ SubmitVote
    \/ UpdateVoteTopic
    \/ Tick

VoteSpec == Init /\ [][VoteNext]_vars

\* the two identifier allocators under the operations that call them
AllocNext ==
    \/ CreateSignalVote(MaxAllocs, Geneses, {[in_favor |-> 2, against |-> 2]}, {None})
    \/ CreatePercentVote(MaxAllocs, Geneses, {[in_favor |-> 600000, against |-> None]}, {None})
    \/ RegisterDispute({"bob"}, {CHOOSE p \in ResolutionPaths : p.kind = "Signal"})

AllocSpec == Init /\ [][AllocNext]_vars

\* two votes side by side, with ballots and topic updates on both
PairNext ==
    \/ CreateSignalVote(MaxVotes, Geneses, {[in_favor |-> 2, against |-> 2]}, {None})
    \/ SubmitVote
    \/ UpdateVoteTopic

PairSpec == Init /\ [][PairNext]_vars

\* one vote of every duration, with ballots, while the blocks go by
TimeNext ==
    \/ CreateSignalVote(MaxOpenings, Geneses, {[in_favor |-> 2, against |-> 2]}, Durations)
    \/ SubmitVote
    \/ Tick

TimeSpec == Init /\ [][TimeNext]_vars

\* one vote opened either way, proportional or absolute, and its ballots
PercentNext ==
    \/ CreatePercentVote(MaxOpenings, Geneses \cup {ScenarioGenesis}, PermillThresholds, {None})
    \/ CreateSignalVote(MaxOpenings, {ScenarioGenesis},
                        {[in_favor |-> 18, against |-> None],
                         [in_favor |-> 20, against |-> None]}, {None})
    \/ SubmitVote

PercentSpec == Init /\ [][PercentNext]_vars

\* disputes of every resolution path and the votes their raises open
\* paths over one electorate: one whose vote is approved as it opens and ends
\* with the block that opens it, one that needs ballots and lasts one block
\* more, and one whose opening fails
CourtPaths ==
    { [kind |-> "Signal",
       org |-> [total |-> 2, account_ownership |-> << <<"alice", 2>> >>],
       threshold |-> [in_favor |-> 0, against |-> None], duration |-> 0],
      [kind |-> "Signal",
       org |-> [total |-> 2, account_ownership |-> << <<"alice", 2>> >>],
       threshold |-> [in_favor |-> 2, against |-> 2], duration |-> 1],
      [kind |-> "Signal",
       org |-> [total |-> 2, account_ownership |-> << <<"alice", 2>> >>],
       threshold |-> [in_favor |-> 3, against |-> None], duration |-> None] }

RaiseNext ==
    \/ RegisterDispute({"bob"}, WiderResolutionPaths)
    \/ RaiseDispute
    \/ Tick

RaiseSpec == Init /\ [][RaiseNext]_vars

\* the two registries side by side: one vote opened directly, with an
\* expiry, and one by the court, ballots and topic updates on them, and the
\* dispute that polls its vote
BothNext ==
    \/ CreateSignalVote(MaxOpenings, SoloGeneses, {[in_favor |-> 2, against |-> 2]}, {1})
    \/ CreatePercentVote(MaxOpenings, SoloGeneses, {[in_favor |-> 600000, against |-> None]}, {1})
    \/ SubmitVote
    \/ UpdateVoteTopic
    \/ (DisputeIdCounter < MaxOpenings /\ RegisterDispute({"bob"}, ResolutionPaths))
    \/ RaiseDispute
    \/ PollDispute

BothSpec == Init /\ [][BothNext]_vars

\* the court over paths of every fate, with the ballots of their votes
CourtNext ==
    \/ RegisterDisputeBy(MaxDisputes, CourtPaths, {None})
    \/ RaiseDispute
    \/ PollDispute
    \/ SubmitVote

CourtSpec == Init /\ [][CourtNext]_vars

\* one dispute, with or without an expiry, raised and polled while the
\* blocks go by
LateNext ==
    \/ RegisterDisputeBy(MaxOpenings, CourtPaths, {None, 0})
    \/ RaiseDispute
    \/ PollDispute
    \/ SubmitVote
    \/ Tick

LateSpec == Init /\ [][LateNext]_vars

(***************************************************************************)
(* Properties                                                              *)
(***************************************************************************)
\* the sum of the magnitudes of the ballots of vote v, among voters, whose
\* direction is in dirs
RECURSIVE SumBallots(_, _, _)
SumBallots(v, dirs, voters) ==
    IF voters = {} THEN 0
    ELSE LET a == CHOOSE x \in voters : TRUE
             m == IF <<v, a>> \in DOMAIN VoteLogger /\ VoteLogger[<<v, a>>].direction \in dirs
                  THEN VoteLogger[<<v, a>>].magnitude ELSE 0
         IN  m + SumBallots(v, dirs, voters \ {a})

\* the sum of locked_funds over the disputes in ds
RECURSIVE SumLocked(_)
SumLocked(ds) ==
    IF ds = {} THEN 0
    ELSE LET d == CHOOSE x \in ds : TRUE
         IN  DisputeStates[d].locked_funds + SumLocked(ds \ {d})

OpenDisputesOf(a) ==
    {d \in DOMAIN DisputeStates :
        /\ DisputeStates[d].locker = a
        /\ DisputeStates[d].state.tag \in {"DisputeNotRaised", "DisputeRaisedAndVoteDispatched"}}

Terminal == {"DisputeRaisedAndAccepted", "DisputeRaisedAndRejected"}

\* C1: for every vote, in_favor_tally + against_tally <= electorate_total,
\* in_favor_tally is the sum of the magnitudes of the InFavor ballots and
\* against_tally the sum of the magnitudes of the Against ballots.
C1_TalliesMatchBallots ==
    \A v \in DOMAIN VoteStates :
        /\ VoteStates[v].in_favor_tally + VoteStates[v].against_tally
              <= VoteStates[v].electorate_total
        /\ VoteStates[v].in_favor_tally = SumBallots(v, {"InFavor"}, Accounts)
        /\ VoteStates[v].against_tally = SumBallots(v, {"Against"}, Accounts)

\* C2: a dispute is never removed and its state changes only from NotRaised to
\* Raised(v) in a raise, or from Raised(v) to Accepted(v) or Rejected(v) in a
\* poll; an Accepted or Rejected dispute never changes state again.
C2_DisputeMovesForward ==
    [][\A d \in DOMAIN DisputeStates :
          /\ d \in DOMAIN DisputeStates'
          /\ LET s == DisputeStates[d].state
                 t == DisputeStates'[d].state
             IN  s # t =>
                   \/ /\ s.tag = "DisputeNotRaised"
                      /\ t.tag = "DisputeRaisedAndVoteDispatched"
                      /\ last'.op = "raise"
                   \/ /\ s.tag = "DisputeRaisedAndVoteDispatched"
                      /\ t.tag \in Terminal
                      /\ t.vote = s.vote
                      /\ last'.op = "poll"]_vars

\* a resolved dispute on which a later raise or poll has been attempted
C2_Witness ==
    \E d \in DOMAIN DisputeStates :
        /\ DisputeStates[d].state.tag \in Terminal
        /\ last.arg = d
        /\ last.err \in {"ActiveDisputeCannotBePolledFromCurrentState",
                         "ActiveDisputeCannotBeRaisedFromCurrentState"}

\* C3: every account's reserved balance is the sum of locked_amount over its
\* disputes in state NotRaised or Raised.
C3_ReservedIsOpenDisputes ==
    \A a \in Accounts : reserved[a] = SumLocked(OpenDisputesOf(a))

\* C4: a poll that fails because the transfer would take the locker below the
\* minimum-existence floor leaves the dispute and every balance as they were.
C4_FailedTransferChangesNothing ==
    [][(last'.op = "poll" /\ last'.err = "KeepAlive")
          => UNCHANGED <<DisputeStates, free, reserved>>]_vars

\* C5: an open_vote or open_percent_vote that fails with InvalidVoteGenesisInput
\* or InputThresholdExceedsBounds leaves the ballots, the identifier counter,
\* the vote states and the open-vote counter as they were.
C5_FailedOpenChangesNothing ==
    [][(/\ last'.op \in {"open_vote", "open_percent_vote"}
        /\ last'.err \in {"InvalidVoteGenesisInput", "InputThresholdExceedsBounds"})
          => UNCHANGED <<VoteLogger, VoteIdCounter, VoteStates, OpenVoteCounter>>]_vars

\* C6: a successful register raises the locker's reserved balance by amount,
\* and the poll that resolves a dispute lowers it by that amount.
C6_EscrowPerOperation ==
    [][/\ \A d \in DOMAIN DisputeStates' \ DOMAIN DisputeStates :
              LET who == DisputeStates'[d].locker
              IN  reserved'[who] = reserved[who] + DisputeStates'[d].locked_funds
       /\ \A d \in DOMAIN DisputeStates :
              (/\ DisputeStates[d].state.tag = "DisputeRaisedAndVoteDispatched"
               /\ DisputeStates'[d].state.tag \in Terminal)
              => LET who == DisputeStates[d].locker
                 IN  reserved'[who] = reserved[who] - DisputeStates[d].locked_funds]_vars

\* C7 as stated: once the outcome of a vote is Approved it stays Approved in
\* every step other than a topic update that clears the state.
C7_ApprovedNeverLeft ==
    [][\A v \in DOMAIN VoteStates :
          (get_vote_outcome(v) = "Approved" /\ last'.op # "update_topic_clear")
             => get_vote_outcome(v)' = "Approved"]_vars

\* C7 as amended: once the outcome of a vote is Approved it stays Approved in
\* every topic update that does not clear the state and in every other step
\* that does not lower in_favor_tally.
C7_ApprovedKeptUnlessInFavorLowered ==
    [][\A v \in DOMAIN VoteStates :
          (/\ get_vote_outcome(v) = "Approved"
           /\ last'.op # "update_topic_clear"
           /\ \/ last'.op = "update_topic"
              \/ VoteStates'[v].in_favor_tally >= VoteStates[v].in_favor_tally)
             => get_vote_outcome(v)' = "Approved"]_vars

\* an Approved vote with a positive threshold, after a non-clearing topic update
C7_Witness ==
    \E v \in DOMAIN VoteStates :
        /\ get_vote_outcome(v) = "Approved"
        /\ VoteStates[v].threshold.in_favor > 0
        /\ last = [op |-> "update_topic", arg |-> v, who |-> "-", err |-> "Ok"]

StrictlyIncreasing(ids) ==
    \A i, j \in 1..Len(ids) : i < j => ids[i] < ids[j]

\* C8: the identifiers each registry hands out are strictly increasing (hence
\* pairwise distinct), a nonce never decreases, and an identifier is free in
\* its registry when it is handed out.
C8_FreshIncreasingIds ==
    /\ [](StrictlyIncreasing(issuedVoteIds) /\ StrictlyIncreasing(issuedDisputeIds))
    /\ [][/\ VoteIdCounter' >= VoteIdCounter
          /\ DisputeIdCounter' >= DisputeIdCounter
          /\ issuedVoteIds' # issuedVoteIds =>
                issuedVoteIds'[Len(issuedVoteIds')] \notin DOMAIN VoteStates
          /\ issuedDisputeIds' # issuedDisputeIds =>
                issuedDisputeIds'[Len(issuedDisputeIds')] \notin DOMAIN DisputeStates]_vars

\* three vote identifiers and two dispute identifiers have been handed out,
\* one of the vote identifiers to an opening that then failed
C8_Witness ==
    /\ Len(issuedVoteIds) >= 3
    /\ Len(issuedDisputeIds) >= 2
    /\ Cardinality(DOMAIN VoteStates) < Len(issuedVoteIds)

\* C9: for every vote, in_favor_tally + against_tally is the sum of the
\* magnitudes of its ballots whose direction is not NoVote.
C9_TalliesCountEveryCastBallot ==
    \A v \in DOMAIN VoteStates :
        VoteStates[v].in_favor_tally + VoteStates[v].against_tally
            = SumBallots(v, {"InFavor", "Against", "Abstain"}, Accounts)

\* C10: the outcome a vote reports is Approved when in_favor_tally has reached
\* threshold.in_favor, otherwise Rejected when an against bound is set and
\* against_tally has reached it, otherwise Pending, on the tallies as they are
\* now.
C10_OutcomeFromCurrentTallies ==
    \A v \in DOMAIN VoteStates :
        LET st == VoteStates[v]
            approved == st.in_favor_tally >= st.threshold.in_favor
            rejected == st.threshold.against # None
                        /\ st.against_tally >= st.threshold.against
        IN  /\ approved => get_vote_outcome(v) = "Approved"
            /\ (~approved /\ rejected) => get_vote_outcome(v) = "Rejected"
            /\ (~approved /\ ~rejected) => get_vote_outcome(v) = "Pending"
            /\ st.threshold.against = None => get_vote_outcome(v) # "Rejected"

\* a vote whose tallies have reached both bounds after a ballot, reported Approved
C10_Witness ==
    \E v \in DOMAIN VoteStates :
        /\ VoteStates[v].threshold.in_favor > 0
        /\ VoteStates[v].in_favor_tally >= VoteStates[v].threshold.in_favor
        /\ VoteStates[v].threshold.against # None
        /\ VoteStates[v].against_tally >= VoteStates[v].threshold.against
        /\ last.op = "cast_ballot"
        /\ get_vote_outcome(v) = "Approved"

\* the tally of bucket b after moving magnitude m from direction o to direction n,
\* in the arithmetic of Signal
MovedTally(tally, b, m, o, n) ==
    (tally - (IF Bucket(o) = b THEN m ELSE 0) + (IF Bucket(n) = b THEN m ELSE 0))
        % SignalModulus

\* C11: a successful cast_ballot on vote v is the move of one voter's magnitude m
\* from the bucket of that voter's old direction o to the bucket of a new
\* direction n: the tally of o loses m (nothing when o has no bucket), the tally
\* of n gains m, the voter's Ballot becomes (m, n, justification), and every
\* other Ballot, every other field of v and every other vote are as before.
C11_CastMovesOneBallot ==
    [][(last'.op = "cast_ballot" /\ last'.err = "Ok") =>
        LET v == last'.arg IN
        \E a \in Accounts, n \in Directions, j \in Justifications :
            /\ <<v, a>> \in DOMAIN VoteLogger
            /\ LET o == VoteLogger[<<v, a>>].direction
                   m == VoteLogger[<<v, a>>].magnitude
               IN  /\ VoteLogger' = [VoteLogger EXCEPT ![<<v, a>>] =
                                        [magnitude |-> m, direction |-> n,
                                         justification |-> j]]
                   /\ VoteStates' = [VoteStates EXCEPT ![v] =
                         [@ EXCEPT !.in_favor_tally =
                                       MovedTally(@, "in_favor_tally", m, o, n),
                                   !.against_tally =
                                       MovedTally(@, "against_tally", m, o, n)]]
                   /\ UNCHANGED <<now, VoteIdCounter, OpenVoteCounter, courtVars,
                                  balanceVars>>]_vars

\* a ballot of vote 1 has just moved to Against while vote 2 holds a ballot InFavor
C11_Witness ==
    /\ last.op = "cast_ballot" /\ last.err = "Ok" /\ last.arg = 1
    /\ DOMAIN VoteStates = {1, 2}
    /\ VoteStates[1].against_tally > 0
    /\ \E a \in Accounts : /\ <<1, a>> \in DOMAIN VoteLogger
                            /\ VoteLogger[<<1, a>>].direction = "Against"
    /\ VoteStates[2].in_favor_tally > 0

\* the only result of a cast that fails with e: the error, and nothing written
Refused(e) == {[err |-> e, logger |-> VoteLogger, states |-> VoteStates]}

\* the casts the registry decides on their direction: the vote exists, has not
\* expired and holds a Ballot for the voter
Castable(v, a) ==
    /\ v \in DOMAIN VoteStates
    /\ ~check_vote_expired(VoteStates[v], now)
    /\ <<v, a>> \in DOMAIN VoteLogger

\* C12: direction-change policy of cast_ballot. On a vote that accepts the
\* voter's ballots, every change away from NoVote succeeds, a change from InFavor
\* to Against or from Against to InFavor succeeds, and a change into NoVote from
\* another direction fails with VoteChangeNotSupported and writes nothing; no
\* cast_ballot step takes a Ballot from another direction back to NoVote.
C12_DirectionChangePolicy ==
    /\ [](\A v \in VoteIds, a \in Accounts, n \in Directions, j \in Justifications :
            Castable(v, a) =>
                LET o == VoteLogger[<<v, a>>].direction
                    R == VoteResults(v, a, n, j)
                IN  /\ (o = "NoVote" /\ n # "NoVote") => \A r \in R : r.err = "Ok"
                    /\ ({o, n} = {"InFavor", "Against"}) => \A r \in R : r.err = "Ok"
                    /\ (o # "NoVote" /\ n = "NoVote") =>
                           R = Refused("VoteChangeNotSupported"))
    /\ [][last'.op = "cast_ballot" =>
            \A k \in DOMAIN VoteLogger :
                VoteLogger[k].direction # "NoVote" => VoteLogger'[k].direction # "NoVote"]_vars

\* C13: on a vote that accepts the voter's ballots, cast_ballot with the
\* direction the Ballot already has (NoVote on a Ballot still in NoVote included)
\* has one result, OldVoteDirectionEqualsNewVoteDirectionSoNoChange with nothing
\* written, so it fails again however often it is repeated; a step that ends
\* with that error changes no tally and no Ballot.
C13_SameDirectionRefused ==
    /\ [](\A v \in VoteIds, a \in Accounts, j \in Justifications :
            Castable(v, a) =>
                VoteResults(v, a, VoteLogger[<<v, a>>].direction, j) =
                    Refused("OldVoteDirectionEqualsNewVoteDirectionSoNoChange"))
    /\ [][last'.err = "OldVoteDirectionEqualsNewVoteDirectionSoNoChange" =>
            UNCHANGED <<now, voteVars, courtVars, balanceVars>>]_vars

\* a cast has just been refused for repeating a direction on a vote whose
\* Ballots have all left NoVote, after an earlier refusal or success on that vote
C13_Witness ==
    /\ last.op = "cast_ballot"
    /\ last.err = "OldVoteDirectionEqualsNewVoteDirectionSoNoChange"
    /\ last.arg \in DOMAIN VoteStates
    /\ \A a \in Accounts :
           <<last.arg, a>> \in DOMAIN VoteLogger =>
               VoteLogger[<<last.arg, a>>].direction # "NoVote"
    /\ \E a \in Accounts : <<last.arg, a>> \in DOMAIN VoteLogger

\* C14: a vote opened at block b with duration d gets expires_at = b + d (none
\* without a duration); on an existing vote every result of cast_ballot is
\* VotePastExpirationTimeSoVotesNotAccepted when expires_at is set and the
\* current block is greater, and none is otherwise (so a ballot at the block of
\* expiry, or at any block of a vote without a duration, is not refused for
\* lateness); a step that ends with that error changes no record.
C14_ExpiryBoundary ==
    /\ [](\A src \in Geneses, threshold \in SignalThresholds, d \in Durations :
            LET r == open_vote(None, src, threshold, d)
            IN  r.err = "Ok" =>
                    /\ r.states[r.id].opened_at = now
                    /\ r.states[r.id].expires_at = IF d = None THEN None ELSE now + d)
    /\ [](\A v \in DOMAIN VoteStates, a \in Accounts, n \in Directions,
             j \in Justifications :
            LET late == /\ VoteStates[v].expires_at # None
                        /\ now > VoteStates[v].expires_at
                R == VoteResults(v, a, n, j)
            IN  IF late THEN R = Refused("VotePastExpirationTimeSoVotesNotAccepted")
                ELSE \A r \in R : r.err # "VotePastExpirationTimeSoVotesNotAccepted")
    /\ [][last'.err = "VotePastExpirationTimeSoVotesNotAccepted" =>
            UNCHANGED <<now, voteVars, courtVars, balanceVars>>]_vars

\* a ballot has just been refused one block after the expiry of a vote that
\* was opened with duration 0 and holds a ballot accepted at its block of expiry
C14_Witness ==
    /\ last.op = "cast_ballot"
    /\ last.err = "VotePastExpirationTimeSoVotesNotAccepted"
    /\ LET st == VoteStates[last.arg]
       IN  /\ st.expires_at = st.opened_at
           /\ now = st.expires_at + 1
           /\ st.in_favor_tally + st.against_tally > 0

\* C15: open_vote fails with InvalidVoteGenesisInput when the weights of the
\* electorate do not sum to its declared total, and with
\* InputThresholdExceedsBounds when the sum is right and threshold.in_favor or a
\* set threshold.against exceeds it; every stored VoteState has both bounds of
\* its threshold within electorate_total, and electorate_total equal to the sum
\* of the magnitudes of its Ballots.
C15_OpenVoteValidatesGenesis ==
    /\ [](\A src \in Geneses, threshold \in SignalThresholds, d \in Durations :
            LET r == open_vote(None, src, threshold, d)
                sum == ExpectedTotal(src.account_ownership)
                exceeds == \/ threshold.in_favor > sum
                           \/ threshold.against # None /\ threshold.against > sum
            IN  /\ sum # src.total => r.err = "InvalidVoteGenesisInput"
                /\ (sum = src.total /\ exceeds) => r.err = "InputThresholdExceedsBounds")
    /\ [](\A v \in DOMAIN VoteStates :
            LET st == VoteStates[v]
            IN  /\ st.threshold.in_favor <= st.electorate_total
                /\ st.threshold.against # None =>
                       st.threshold.against <= st.electorate_total
                /\ st.electorate_total = SumBallots(v, Directions, Accounts))

\* the dispute a poll step was made on, when it was Raised before the step
PolledRaised ==
    /\ last'.op = "poll"
    /\ last'.arg \in DOMAIN DisputeStates
    /\ DisputeStates[last'.arg].state.tag = "DisputeRaisedAndVoteDispatched"

\* the outcome, before the step, of the vote of the dispute being polled
PolledOutcome == outcome(VoteStates[DisputeStates[last'.arg].state.vote])

\* the custodian lets the Approved arm move the locked funds of dispute d: the
\* locker is the dispute_raiser, or what the locker has free after the release
\* covers the funds and the existence floor
TransferPermitted(d) ==
    LET dispute == DisputeStates[d]
        avail == free[dispute.locker] + Min(reserved[dispute.locker], dispute.locked_funds)
    IN  \/ dispute.locker = dispute.dispute_raiser
        \/ avail - dispute.locked_funds >= ExistentialDeposit

\* a poll that finds the vote undecided fails with
\* VoteOutcomeInconclusiveSoPollCannotExecuteOutcome and changes neither the
\* dispute nor a balance
PendingPollRefused ==
    (PolledRaised /\ PolledOutcome = "Pending") =>
        /\ last'.err = "VoteOutcomeInconclusiveSoPollCannotExecuteOutcome"
        /\ UNCHANGED <<now, voteVars, courtVars, balanceVars>>

\* C16 as stated: a poll on a Raised dispute whose vote is Pending fails with
\* VoteOutcomeInconclusiveSoPollCannotExecuteOutcome leaving the dispute Raised
\* and the balances as they were, and a poll made once ballots have made the
\* outcome Approved or Rejected succeeds. (Every vote of a dispute starts
\* Pending and the refused poll changes no record, so every decided dispute is
\* one that could have been polled in vain before.)
C16_PendingThenPollSucceeds ==
    [][/\ PendingPollRefused
       /\ (PolledRaised /\ PolledOutcome \in {"Approved", "Rejected"}) =>
              last'.err = "Ok"]_vars

\* C16 amended: as above while the vote is Pending; once the outcome is Rejected
\* the poll succeeds; once it is Approved the poll succeeds when the custodian
\* permits the transfer, and otherwise fails with the custodian's error and the
\* dispute stays Raised with its vote.
C16_PendingThenPollDecides ==
    [][/\ PendingPollRefused
       /\ (PolledRaised /\ PolledOutcome = "Rejected") => last'.err = "Ok"
       /\ (PolledRaised /\ PolledOutcome = "Approved") =>
              IF TransferPermitted(last'.arg) THEN last'.err = "Ok"
              ELSE /\ last'.err \in {"KeepAlive", "InsufficientBalance"}
                   /\ DisputeStates'[last'.arg].state = DisputeStates[last'.arg].state]_vars

\* a poll has just succeeded on a dispute whose vote holds cast ballots, while
\* another dispute is still Raised on an undecided vote
C16_Witness ==
    /\ last.op = "poll" /\ last.err = "Ok"
    /\ DisputeStates[last.arg].state.tag \in
           {"DisputeRaisedAndAccepted", "DisputeRaisedAndRejected"}
    /\ \E d \in DOMAIN DisputeStates :
           /\ DisputeStates[d].state.tag = "DisputeRaisedAndVoteDispatched"
           /\ outcome(VoteStates[DisputeStates[d].state.vote]) = "Pending"

\* free plus reserved balance of account a, before and after the step
Total(a) == free[a] + reserved[a]
TotalAfter(a) == free'[a] + reserved'[a]

RECURSIVE SumTotal(_)
SumTotal(as) ==
    IF as = {} THEN 0
    ELSE LET a == CHOOSE x \in as : TRUE IN Total(a) + SumTotal(as \ {a})

RECURSIVE SumTotalAfter(_)
SumTotalAfter(as) ==
    IF as = {} THEN 0
    ELSE LET a == CHOOSE x \in as : TRUE IN TotalAfter(a) + SumTotalAfter(as \ {a})

\* a poll step that succeeded on a Raised dispute whose vote had the outcome oc
PollSucceededOn(oc) ==
    PolledRaised /\ PolledOutcome = oc /\ last'.err = "Ok"

C18_RejectedPollReturnsFunds ==
    [][(PolledRaised /\ PolledOutcome = "Rejected") =>
        LET dispute == DisputeStates[last'.arg]
            locker == dispute.locker
            raiser == dispute.dispute_raiser
        IN  /\ last'.err = "Ok"
            /\ TotalAfter(locker) = Total(locker)
            /\ TotalAfter(raiser) = Total(raiser)
            /\ raiser # locker =>
                   free'[raiser] = free[raiser] /\ reserved'[raiser] = reserved[raiser]
            /\ free'[locker] = free[locker] + dispute.locked_funds
            /\ DisputeStates'[last'.arg].state =
                   DisputeRaisedAndRejected(dispute.state.vote)]_vars

\* C19: a raise succeeds only on a dispute that is NotRaised. A raise by a
\* permitted caller on a dispute that is Raised, Accepted or Rejected fails with
\* ActiveDisputeCannotBeRaisedFromCurrentState and a raise on an unknown id fails
\* with CannotRaiseDisputeIfDisputeStateDNE; both open no vote and leave the vote
\* identifier counter and the dispute records as they were. No dispute returns
\* to NotRaised, so none is raised twice.
C19_RaiseOnlyFromNotRaised ==
    [][/\ last'.op = "raise" =>
           LET d == last'.arg IN
           /\ d \notin DOMAIN DisputeStates =>
                  /\ last'.err = "CannotRaiseDisputeIfDisputeStateDNE"
                  /\ UNCHANGED <<now, voteVars, courtVars, balanceVars>>
           /\ (/\ d \in DOMAIN DisputeStates
               /\ can_raise_dispute(DisputeStates[d], last'.who)
               /\ DisputeStates[d].state # DisputeNotRaised) =>
                  /\ last'.err = "ActiveDisputeCannotBeRaisedFromCurrentState"
                  /\ UNCHANGED <<now, voteVars, courtVars, balanceVars>>
           /\ last'.err = "Ok" =>
                  /\ d \in DOMAIN DisputeStates
                  /\ DisputeStates[d].state = DisputeNotRaised
                  /\ DisputeStates'[d].state.tag = "DisputeRaisedAndVoteDispatched"
       /\ \A d \in DOMAIN DisputeStates :
              DisputeStates[d].state # DisputeNotRaised =>
                  DisputeStates'[d].state # DisputeNotRaised]_vars

\* the dispute_raiser has just tried to raise a dispute that is already
\* Accepted or Rejected and was refused for its state
C19_Witness ==
    /\ last.op = "raise"
    /\ last.err = "ActiveDisputeCannotBeRaisedFromCurrentState"
    /\ last.who = DisputeStates[last.arg].dispute_raiser
    /\ DisputeStates[last.arg].state.tag \in
           {"DisputeRaisedAndAccepted", "DisputeRaisedAndRejected"}

\* C20: a raise of a registered dispute by a caller who may not raise it fails
\* with SignerNotAuthorizedToRaiseThisDispute whatever the state of the dispute,
\* opens no vote and changes no dispute record and no balance; a dispute leaves
\* NotRaised only in a raise of that dispute made by a caller who may raise it.
C20_UnauthorizedRaiseRefused ==
    [][/\ (/\ last'.op = "raise"
           /\ last'.arg \in DOMAIN DisputeStates
           /\ ~can_raise_dispute(DisputeStates[last'.arg], last'.who)) =>
              /\ last'.err = "SignerNotAuthorizedToRaiseThisDispute"
              /\ UNCHANGED <<now, voteVars, courtVars, balanceVars>>
       /\ \A d \in DOMAIN DisputeStates :
              (DisputeStates[d].state = DisputeNotRaised
                   /\ DisputeStates'[d].state # DisputeNotRaised) =>
                  /\ last'.op = "raise" /\ last'.arg = d /\ last'.err = "Ok"
                  /\ can_raise_dispute(DisputeStates[d], last'.who)]_vars

\* an account other than the dispute_raiser has just been refused the raise of
\* a dispute that is past NotRaised, while another dispute was raised by its
\* dispute_raiser
C20_Witness ==
    /\ last.op = "raise"
    /\ last.err = "SignerNotAuthorizedToRaiseThisDispute"
    /\ last.who # DisputeStates[last.arg].dispute_raiser
    /\ DisputeStates[last.arg].state # DisputeNotRaised
    /\ \E d \in DOMAIN DisputeStates :
           d # last.arg /\ DisputeStates[d].state.tag = "DisputeRaisedAndVoteDispatched"

\* C21: poll acts only on a Raised dispute. On a dispute that is NotRaised,
\* Accepted or Rejected it fails with ActiveDisputeCannotBePolledFromCurrentState
\* and on an unknown id with CannotPollDisputeIfDisputeStateDNE; in both cases
\* no balance moves and no record changes.
C21_PollOnlyFromRaised ==
    [][last'.op = "poll" =>
        LET d == last'.arg IN
        /\ d \notin DOMAIN DisputeStates =>
               /\ last'.err = "CannotPollDisputeIfDisputeStateDNE"
               /\ UNCHANGED <<now, voteVars, courtVars, balanceVars>>
        /\ (/\ d \in DOMAIN DisputeStates
            /\ DisputeStates[d].state.tag \in
                   {"DisputeNotRaised", "DisputeRaisedAndAccepted",
                    "DisputeRaisedAndRejected"}) =>
               /\ last'.err = "ActiveDisputeCannotBePolledFromCurrentState"
               /\ UNCHANGED <<now, voteVars, courtVars, balanceVars>>
        /\ last'.err \in {"CannotPollDisputeIfDisputeStateDNE",
                          "ActiveDisputeCannotBePolledFromCurrentState"} =>
               UNCHANGED <<now, voteVars, courtVars, balanceVars>>]_vars

\* a poll has just been refused on a dispute that an earlier poll made
\* Accepted, while funds of another dispute are still reserved
C21_Witness ==
    /\ last.op = "poll"
    /\ last.err = "ActiveDisputeCannotBePolledFromCurrentState"
    /\ DisputeStates[last.arg].state.tag = "DisputeRaisedAndAccepted"
    /\ \E a \in Accounts : reserved[a] > 0

\* C22: register with an amount below the minimum fails with
\* DisputeMustExceedModuleMinimum whoever the locker is, and a step that ends with
\* that error reserves nothing, creates no dispute and leaves the dispute
\* identifier counter where it was; an amount equal to the minimum is not
\* refused for being too small.
C22_BelowMinimumRefused ==
    /\ [](\A locker \in Accounts, amount \in 0..MinimumDisputeAmount :
            LET r == LockFunds(locker, amount)
            IN  IF amount < MinimumDisputeAmount
                THEN r = [err |-> "DisputeMustExceedModuleMinimum",
                          free |-> free, reserved |-> reserved]
                ELSE r.err # "DisputeMustExceedModuleMinimum")
    /\ [][last'.err = "DisputeMustExceedModuleMinimum" =>
            /\ last'.op = "register"
            /\ UNCHANGED <<now, voteVars, courtVars, balanceVars>>]_vars
    /\ [](\A d \in DOMAIN DisputeStates :
            DisputeStates[d].locked_funds >= MinimumDisputeAmount)

\* a register has just been refused for its amount after one with exactly the
\* minimum was accepted
C22_Witness ==
    /\ last.op = "register"
    /\ last.err = "DisputeMustExceedModuleMinimum"
    /\ \E d \in DOMAIN DisputeStates :
           DisputeStates[d].locked_funds = MinimumDisputeAmount

\* the ids in the sequence ids
Range(ids) == {ids[i] : i \in DOMAIN ids}

\* C23: when the custodian refuses the reserve, register returns the custodian's
\* failure; a register that fails creates no dispute and leaves the dispute
\* identifier counter and every balance as they were; a register that succeeds
\* moves the amount from the locker's free to its reserved balance and adds one
\* record, under an id that names no record and was never issued, in NotRaised.
C23_RegisterAllOrNothing ==
    /\ [](\A locker \in Accounts, amount \in Amounts :
            LET r == reserve([free |-> free, reserved |-> reserved], locker, amount)
            IN  (MeetsMinimum(amount) /\ r.err # "Ok") =>
                    LockFunds(locker, amount) =
                        [err |-> r.err, free |-> free, reserved |-> reserved])
    /\ [][last'.op = "register" =>
            IF last'.err # "Ok"
            THEN UNCHANGED <<now, voteVars, courtVars, balanceVars>>
            ELSE LET id == last'.arg IN
                 /\ id \notin DOMAIN DisputeStates
                 /\ id \notin Range(issuedDisputeIds)
                 /\ DOMAIN DisputeStates' = DOMAIN DisputeStates \cup {id}
                 /\ \A d \in DOMAIN DisputeStates : DisputeStates'[d] = DisputeStates[d]
                 /\ DisputeStates'[id].state = DisputeNotRaised
                 /\ LET new == DisputeStates'[id]
                    IN  /\ free' = [free EXCEPT ![new.locker] = @ - new.locked_funds]
                        /\ reserved' = [reserved EXCEPT ![new.locker] = @ + new.locked_funds]
                        /\ free[new.locker] >= new.locked_funds
                 /\ UNCHANGED <<now, voteVars>>]_vars

\* the custodian has just refused a reserve for a locker whose funds are all
\* held by the dispute registered before
C23_Witness ==
    /\ last.op = "register"
    /\ last.err = "InsufficientBalance"
    /\ \E d \in DOMAIN DisputeStates :
           /\ free[DisputeStates[d].locker] < MinimumDisputeAmount
           /\ reserved[DisputeStates[d].locker] = DisputeStates[d].locked_funds

\* C24: update_topic with clear_state on an existing vote sets the direction of
\* every Ballot of the vote to NoVote and both tallies to zero, keeps the
\* electorate, every magnitude, the threshold and the timing fields, and leaves
\* the vote such that (while it has not expired) every voter of the electorate
\* can cast InFavor, Against or Abstain; on a vote that does not exist
\* update_topic fails with CannotUpdateVoteTopicIfVoteStateDNE and changes
\* nothing.
C24_ClearStateResetsBallots ==
    /\ [][(last'.op = "update_topic_clear" /\ last'.err = "Ok") =>
            LET v == last'.arg IN
            /\ DOMAIN VoteLogger' = DOMAIN VoteLogger
            /\ \A k \in DOMAIN VoteLogger :
                   /\ VoteLogger'[k].magnitude = VoteLogger[k].magnitude
                   /\ k[1] = v => VoteLogger'[k].direction = "NoVote"
                   /\ k[1] # v => VoteLogger'[k] = VoteLogger[k]
            /\ VoteStates'[v].in_favor_tally = 0
            /\ VoteStates'[v].against_tally = 0
            /\ VoteStates'[v].electorate_total = VoteStates[v].electorate_total
            /\ VoteStates'[v].threshold = VoteStates[v].threshold
            /\ VoteStates'[v].opened_at = VoteStates[v].opened_at
            /\ VoteStates'[v].expires_at = VoteStates[v].expires_at]_vars
    /\ []((last.op = "update_topic_clear" /\ last.err = "Ok") =>
            \A a \in Accounts, n \in {"InFavor", "Against", "Abstain"},
               j \in Justifications :
                Castable(last.arg, a) =>
                    \A r \in VoteResults(last.arg, a, n, j) : r.err = "Ok")
    /\ [][last'.err = "CannotUpdateVoteTopicIfVoteStateDNE" =>
            /\ last'.arg \notin DOMAIN VoteStates
            /\ UNCHANGED <<now, voteVars, courtVars, balanceVars>>]_vars

\* C25: open_percent_vote stores the threshold ratio * electorate total, rounded
\* to the nearest, and apart from that conversion gives what open_vote gives
\* for the converted threshold; with an electorate of total 30 and in_favor 60%
\* the stored in_favor threshold is 18, and with two ballots of weight 10
\* InFavor the outcome of that vote is Approved.
C25_PercentThresholdResolved ==
    /\ [](\A src \in Geneses \cup {ScenarioGenesis}, threshold \in PermillThresholds,
             d \in Durations :
            LET r == open_percent_vote(None, src, threshold, d)
                absolute ==
                    [in_favor |-> PermillMul(threshold.in_favor, src.total),
                     against |-> IF threshold.against = None THEN None
                                 ELSE PermillMul(threshold.against, src.total)]
            IN  /\ r = open_vote(None, src, absolute, d)
                /\ r.err = "Ok" => r.states[r.id].threshold = absolute
                /\ (r.err = "Ok" /\ src.total = 30 /\ threshold.in_favor = 600000) =>
                       r.states[r.id].threshold.in_favor = 18)
    /\ [](\A v \in DOMAIN VoteStates :
            (/\ VoteStates[v].electorate_total = 30
             /\ VoteStates[v].threshold.in_favor = 18
             /\ \A a \in {"alice", "bob"} :
                    /\ <<v, a>> \in DOMAIN VoteLogger
                    /\ VoteLogger[<<v, a>>].magnitude = 10
                    /\ VoteLogger[<<v, a>>].direction = "InFavor") =>
                /\ VoteStates[v].in_favor_tally = 20
                /\ get_vote_outcome(v) = "Approved")

\* a vote opened with in_favor 60% of an electorate of 30 has just received
\* its second InFavor ballot of weight 10
C25_Witness ==
    /\ last.op = "cast_ballot" /\ last.err = "Ok"
    /\ last.arg \in DOMAIN VoteStates
    /\ VoteStates[last.arg].electorate_total = 30
    /\ VoteStates[last.arg].threshold = [in_favor |-> 18, against |-> None]
    /\ VoteStates[last.arg].in_favor_tally = 20
    /\ VoteLogger[<<last.arg, "alice">>].direction = "InFavor"
    /\ VoteLogger[<<last.arg, "bob">>].direction = "InFavor"
    /\ VoteLogger[<<last.arg, "carol">>].direction = "NoVote"

\* the VoteState a resolution path asks for when its vote is opened now
PathVoteState(metadata) ==
    NewVoteState(None, metadata.org.total,
                 IF metadata.kind = "Signal" THEN metadata.threshold
                 ELSE [in_favor |-> PermillMul(metadata.threshold.in_favor,
                                               metadata.org.total),
                       against |-> IF metadata.threshold.against = None THEN None
                                   ELSE PermillMul(metadata.threshold.against,
                                                   metadata.org.total)],
                 now,
                 IF metadata.duration = None THEN None ELSE now + metadata.duration)

\* C26: a raise that succeeds adds exactly one VoteState, under an id that
\* named no vote, with the electorate total, the threshold (converted when the
\* path is proportional) and the duration of the dispute's resolution path and
\* one NoVote Ballot per member of its electorate, and stores Raised(that id);
\* a raise that fails leaves every dispute as it was; no two disputes ever
\* refer to the same vote.
C26_RaiseOpensOneVote ==
    /\ [][last'.op = "raise" =>
            IF last'.err = "Ok"
            THEN LET d == last'.arg
                     metadata == DisputeStates[d].resolution_metadata
                     v == DisputeStates'[d].state.vote
                     members == metadata.org.account_ownership
                 IN  /\ DisputeStates' = [DisputeStates EXCEPT ![d].state =
                                             DisputeRaisedAndVoteDispatched(v)]
                     /\ v \notin DOMAIN VoteStates
                     /\ DOMAIN VoteStates' = DOMAIN VoteStates \cup {v}
                     /\ \A w \in DOMAIN VoteStates : VoteStates'[w] = VoteStates[w]
                     /\ VoteStates'[v] = PathVoteState(metadata)
                     /\ DOMAIN VoteLogger' =
                            DOMAIN VoteLogger \cup
                                {<<v, members[i][1]>> : i \in DOMAIN members}
                     /\ \A i \in DOMAIN members :
                            VoteLogger'[<<v, members[i][1]>>] =
                                NewVote(members[i][2], "NoVote", None)
                     /\ \A k \in DOMAIN VoteLogger :
                            k[1] # v => VoteLogger'[k] = VoteLogger[k]
            ELSE DisputeStates' = DisputeStates]_vars
    /\ [](\A d1, d2 \in DOMAIN DisputeStates :
            (/\ d1 # d2
             /\ DisputeStates[d1].state # DisputeNotRaised
             /\ DisputeStates[d2].state # DisputeNotRaised) =>
                DisputeStates[d1].state.vote # DisputeStates[d2].state.vote)

\* a second dispute has just been raised, one of the two on an absolute path
\* and the other on a proportional path with a duration
C26_Witness ==
    /\ last.op = "raise" /\ last.err = "Ok"
    /\ \E d1, d2 \in DOMAIN DisputeStates :
           /\ DisputeStates[d1].state.tag = "DisputeRaisedAndVoteDispatched"
           /\ DisputeStates[d2].state.tag = "DisputeRaisedAndVoteDispatched"
           /\ DisputeStates[d1].resolution_metadata.kind = "Signal"
           /\ DisputeStates[d2].resolution_metadata.kind = "Percentage"
           /\ DisputeStates[d2].resolution_metadata.duration # None

\* C27: cast_ballot on an id that names no vote fails with
\* NoVoteStateForVoteRequest, and on a vote that has not expired a cast by an
\* account without a Ballot in it fails with SignalNotMintedForVoter; a step
\* that ends with either error changes no tally and no Ballot; no cast_ballot
\* step adds or removes a Ballot.
C27_OnlyElectorateVotes ==
    /\ [](\A v \in VoteIds, a \in Accounts, n \in Directions, j \in Justifications :
            /\ v \notin DOMAIN VoteStates =>
                   VoteResults(v, a, n, j) = Refused("NoVoteStateForVoteRequest")
            /\ (/\ v \in DOMAIN VoteStates
                /\ ~check_vote_expired(VoteStates[v], now)
                /\ <<v, a>> \notin DOMAIN VoteLogger) =>
                   VoteResults(v, a, n, j) = Refused("SignalNotMintedForVoter"))
    /\ [][last'.err \in {"NoVoteStateForVoteRequest", "SignalNotMintedForVoter"} =>
            /\ last'.op = "cast_ballot"
            /\ UNCHANGED <<now, voteVars, courtVars, balanceVars>>]_vars
    /\ [][last'.op = "cast_ballot" => DOMAIN VoteLogger' = DOMAIN VoteLogger]_vars

\* an account outside the electorate has just been refused on a vote in which
\* a member's ballot is counted
C27_Witness ==
    /\ last.op = "cast_ballot"
    /\ last.err = "SignalNotMintedForVoter"
    /\ last.arg \in DOMAIN VoteStates
    /\ VoteStates[last.arg].in_favor_tally > 0
    /\ \E a \in Accounts : <<last.arg, a>> \notin DOMAIN VoteLogger
    /\ \E a \in Accounts : /\ <<last.arg, a>> \in DOMAIN VoteLogger
                            /\ VoteLogger[<<last.arg, a>>].direction = "InFavor"

\* C28: in every step, a VoteState that exists still exists afterwards with
\* the same electorate_total, threshold, opened_at and expires_at, and every
\* Ballot of it still exists with the same magnitude; a VoteState differs
\* from its former self in its topic and its two tallies at most, a Ballot in
\* its direction and justification at most.
C28_OpenedVoteIsFixed ==
    [][/\ \A v \in DOMAIN VoteStates :
            /\ v \in DOMAIN VoteStates'
            /\ VoteStates'[v] = [VoteStates[v] EXCEPT
                                     !.topic = VoteStates'[v].topic,
                                     !.in_favor_tally = VoteStates'[v].in_favor_tally,
                                     !.against_tally = VoteStates'[v].against_tally]
        /\ \A k \in DOMAIN VoteLogger :
            k[1] \in DOMAIN VoteStates =>
                /\ k \in DOMAIN VoteLogger'
                /\ VoteLogger'[k] = [VoteLogger[k] EXCEPT
                                         !.direction = VoteLogger'[k].direction,
                                         !.justification = VoteLogger'[k].justification]
      ]_vars

\* a vote opened with an expiry has had a ballot counted and its state cleared
\* by update_topic, while the court's dispute was raised and polled
C28_Witness ==
    /\ last.op = "update_topic_clear"
    /\ last.err = "Ok"
    /\ VoteStates[last.arg].expires_at # None
    /\ VoteStates[last.arg].topic # None
    /\ \E a \in Accounts : /\ <<last.arg, a>> \in DOMAIN VoteLogger
                            /\ VoteLogger[<<last.arg, a>>].direction # "NoVote"
    /\ \E d \in DOMAIN DisputeStates : DisputeStates[d].state.tag \in Terminal

\* C29: a step of open_vote, open_percent_vote, cast_ballot or update_topic
\* leaves every dispute record, the dispute identifier counter and every
\* balance as they were; a step of register or poll leaves every VoteState,
\* every Ballot and the vote identifier counter as they were; the state of an
\* existing dispute changes in steps of raise and poll only.
C29_RegistriesAreSeparate ==
    /\ [][last'.op \in {"open_vote", "open_percent_vote", "cast_ballot",
                         "update_topic", "update_topic_clear"} =>
              UNCHANGED <<DisputeStates, DisputeIdCounter, free, reserved>>]_vars
    /\ [][last'.op \in {"register", "poll"} =>
              UNCHANGED <<VoteStates, VoteLogger, VoteIdCounter>>]_vars
    /\ [][\A d \in DOMAIN DisputeStates :
              /\ d \in DOMAIN DisputeStates'
              /\ DisputeStates'[d].state # DisputeStates[d].state =>
                     last'.op \in {"raise", "poll"}]_vars

\* a ballot has just brought the vote of a raised dispute past its threshold,
\* and the dispute is still raised
C29_Witness ==
    /\ last.op = "cast_ballot"
    /\ last.err = "Ok"
    /\ get_vote_outcome(last.arg) = "Approved"
    /\ \E d \in DOMAIN DisputeStates :
           /\ DisputeStates[d].state = DisputeRaisedAndVoteDispatched(last.arg)
           /\ reserved[DisputeStates[d].locker] >= DisputeStates[d].locked_funds

\* C30: a successful update_topic with clear_state = false changes nothing
\* but the topic of the named VoteState: its tallies, threshold, electorate
\* total, timing fields and outcome, every other VoteState and every Ballot
\* are the same before and after the step.
C30_TopicOnlyUpdate ==
    [][(last'.op = "update_topic" /\ last'.err = "Ok") =>
          /\ last'.arg \in DOMAIN VoteStates
          /\ VoteStates' = [VoteStates EXCEPT
                                ![last'.arg].topic = VoteStates'[last'.arg].topic]
          /\ outcome(VoteStates'[last'.arg]) = outcome(VoteStates[last'.arg])
          /\ UNCHANGED <<now, VoteLogger, VoteIdCounter, OpenVoteCounter,
                         courtVars, balanceVars>>]_vars

\* the topic of a vote with counted ballots on both sides has just been
\* replaced without clearing
C30_Witness ==
    /\ last.op = "update_topic"
    /\ last.err = "Ok"
    /\ VoteStates[last.arg].topic # None
    /\ VoteStates[last.arg].in_favor_tally > 0
    /\ VoteStates[last.arg].against_tally > 0
    /\ \E a \in Accounts : /\ <<last.arg, a>> \in DOMAIN VoteLogger
                            /\ VoteLogger[<<last.arg, a>>].direction = "Against"

\* C31: in every state, every dispute that is Raised(v), Accepted(v) or
\* Rejected(v) names a vote v that has a VoteState; no poll ends with
\* NoVoteStateForOutcomeQuery.
C31_RaisedDisputeHasVote ==
    /\ [](\A d \in DOMAIN DisputeStates :
             DisputeStates[d].state.tag # "DisputeNotRaised" =>
                 DisputeStates[d].state.vote \in DOMAIN VoteStates)
    /\ [][last'.op = "poll" => last'.err # "NoVoteStateForOutcomeQuery"]_vars

\* a dispute was raised and polled to its end after an earlier raise failed in
\* the opening of its vote, which left ballots without a VoteState behind
C31_Witness ==
    /\ last.op = "poll"
    /\ last.err = "Ok"
    /\ DisputeStates[last.arg].state.tag \in Terminal
    /\ \E k \in DOMAIN VoteLogger : k[1] \notin DOMAIN VoteStates
    /\ \E d \in DOMAIN DisputeStates : DisputeStates[d].state.tag = "DisputeNotRaised"

\* C32: a threshold with in_favor = 0 passes valid_signal_threshold and the
\* vote a path with such a threshold opens is Approved as it opens, with both
\* tallies at zero; every vote with in_favor = 0 is Approved in every state;
\* a poll on a Raised dispute whose vote has in_favor = 0 succeeds whenever
\* the custodian permits the transfer, whether or not a ballot was cast: the
\* dispute becomes Accepted and a dispute_raiser other than the locker has
\* locked_funds more free; otherwise the poll fails with the custodian's error.
C32_ZeroThresholdApproved ==
    /\ [](\A p \in CourtPaths, against \in {None, 0, 2} :
             LET threshold == [in_favor |-> 0, against |-> against]
                 r == open_vote(None, p.org, threshold, p.duration)
             IN  /\ valid_signal_threshold(threshold, p.org.total)
                 /\ r.err = "Ok"
                 /\ r.states[r.id].in_favor_tally = 0
                 /\ r.states[r.id].against_tally = 0
                 /\ outcome(r.states[r.id]) = "Approved")
    /\ [](\A v \in DOMAIN VoteStates :
             VoteStates[v].threshold.in_favor = 0 => get_vote_outcome(v) = "Approved")
    /\ [][(/\ PolledRaised
           /\ VoteStates[DisputeStates[last'.arg].state.vote].threshold.in_favor = 0) =>
              LET dispute == DisputeStates[last'.arg]
              IN  IF TransferPermitted(last'.arg)
                  THEN /\ last'.err = "Ok"
                       /\ DisputeStates'[last'.arg].state =
                              DisputeRaisedAndAccepted(dispute.state.vote)
                       /\ dispute.locker # dispute.dispute_raiser =>
                              free'[dispute.dispute_raiser] =
                                  free[dispute.dispute_raiser] + dispute.locked_funds
                  ELSE /\ last'.err \in {"KeepAlive", "InsufficientBalance"}
                       /\ DisputeStates'[last'.arg].state = dispute.state]_vars

\* a dispute locked by alice for bob was polled to Accepted on a vote with a
\* threshold of zero in which no ballot was ever counted, and bob holds the
\* locked funds
C32_Witness ==
    /\ last.op = "poll"
    /\ last.err = "Ok"
    /\ LET dispute == DisputeStates[last.arg]
           v == dispute.state.vote
       IN  /\ dispute.state.tag = "DisputeRaisedAndAccepted"
           /\ dispute.locker = "alice"
           /\ dispute.dispute_raiser = "bob"
           /\ VoteStates[v].threshold.in_favor = 0
           /\ VoteStates[v].in_favor_tally = 0
           /\ VoteStates[v].against_tally = 0
           /\ \A k \in DOMAIN VoteLogger : k[1] = v => VoteLogger[k].direction = "NoVote"
           /\ reserved["bob"] = 0
           /\ free["bob"] = InitialFree["bob"] + dispute.locked_funds

\* what a raise of dispute d by who returns, told from the dispute's raiser,
\* state and resolution path alone
RaiseVerdict(d, who) ==
    IF d \notin DOMAIN DisputeStates THEN "CannotRaiseDisputeIfDisputeStateDNE"
    ELSE LET dispute == DisputeStates[d]
             metadata == dispute.resolution_metadata
             threshold == IF metadata.kind = "Signal" THEN metadata.threshold
                          ELSE from_permill_to_signal(metadata.threshold, metadata.org.total)
         IN  IF dispute.dispute_raiser # who
             THEN "SignerNotAuthorizedToRaiseThisDispute"
             ELSE IF dispute.state.tag # "DisputeNotRaised"
             THEN "ActiveDisputeCannotBeRaisedFromCurrentState"
             ELSE IF ExpectedTotal(metadata.org.account_ownership) # metadata.org.total
             THEN "InvalidVoteGenesisInput"
             ELSE IF ~valid_signal_threshold(threshold, metadata.org.total)
             THEN "InputThresholdExceedsBounds"
             ELSE "Ok"

\* what a poll of dispute d may return, told from the dispute's state, the
\* tallies and threshold of its vote and the balances alone
PollVerdict(d) ==
    IF d \notin DOMAIN DisputeStates THEN {"CannotPollDisputeIfDisputeStateDNE"}
    ELSE LET dispute == DisputeStates[d] IN
         IF dispute.state.tag # "DisputeRaisedAndVoteDispatched"
         THEN {"ActiveDisputeCannotBePolledFromCurrentState"}
         ELSE LET state == VoteStates[dispute.state.vote]
                  approved == state.in_favor_tally >= state.threshold.in_favor
                  rejected == /\ state.threshold.against # None
                              /\ state.against_tally >= state.threshold.against
              IN  IF approved
                  THEN IF TransferPermitted(d) THEN {"Ok"}
                       ELSE {"KeepAlive", "InsufficientBalance"}
                  ELSE IF rejected THEN {"Ok"}
                  ELSE {"VoteOutcomeInconclusiveSoPollCannotExecuteOutcome"}

\* C33: at every block, every raise returns what the dispute's raiser, state
\* and resolution path determine, and every poll, whoever calls it, what the
\* dispute's state, its vote's tallies and threshold and the balances
\* determine, neither depending on the block, the dispute's expiry or the
\* vote's expires_at; a new block changes no dispute and no balance, and a
\* reserved balance falls in poll steps only.
C33_ExpiryNeverConsulted ==
    /\ [][last'.op = "raise" => last'.err = RaiseVerdict(last'.arg, last'.who)]_vars
    /\ [][last'.op = "poll" => last'.err \in PollVerdict(last'.arg)]_vars
    /\ [][now' # now => UNCHANGED <<courtVars, balanceVars, voteVars>>]_vars
    /\ [][(\E a \in Accounts : reserved'[a] < reserved[a]) => last'.op = "poll"]_vars

\* a dispute registered with expiry 0 was raised at a later block, and polled
\* to Accepted after its vote had expired as well; its reservation is released
C33_Witness ==
    /\ last.op = "poll"
    /\ last.err = "Ok"
    /\ LET dispute == DisputeStates[last.arg]
           state == VoteStates[dispute.state.vote]
       IN  /\ dispute.state.tag = "DisputeRaisedAndAccepted"
           /\ dispute.expiry = 0
           /\ state.opened_at > dispute.expiry
           /\ state.expires_at # None
           /\ state.expires_at < now
           /\ reserved[dispute.locker] = 0

====
